---- MODULE Spec2Model ----
(***************************************************************************)
(* Themes selectors of client/state/themes/selectors.js, and the total of  *)
(* the checkout of unnamed/part_000.                                       *)
(*                                                                         *)
(* The selectors are pure functions of the global state tree.  The tree    *)
(* is the variable `state`; every selector is an operator that takes the   *)
(* tree as its first parameter, as in the source.  An action of the model  *)
(* is one call of a selector (recorded in `call`, its result in `ret`) or  *)
(* one change of the tree.  Four selectors are memoized: an operator of    *)
(* the name of the selector is its computation, Memoized_<name> is the     *)
(* selector with its cache, and `cache` holds the caches.  A throw is the  *)
(* result [t |-> "throw"].                                                 *)
(*                                                                         *)
(* JavaScript values are tagged records, so that values of different       *)
(* JavaScript types can be compared: S(s) a string, N(n) a number, B(b) a  *)
(* boolean, Null, Undefined, Arr(seq) an array, and objects are records    *)
(* with t = "object".  Plain objects used as maps (state.themes.queries,   *)
(* the items of a collection, ...) are functions from property names.      *)
(***************************************************************************)
EXTENDS Integers, Sequences, FiniteSets, TLC

VARIABLES state, config, cache, call, ret

vars == <<state, config, cache, call, ret>>

\* What a selector reads and never writes: the state tree and the build's
\* feature flags.
env == <<state, config>>

(***************************************************************************)
(* Bounds                                                                  *)
(***************************************************************************)
NumThemes == 2

MaxPurchases == 2

MaxIdParts == 2

MaxPageLen == 3

\* The most line items of a checkout.
MaxItems == 2

(***************************************************************************)
(* JavaScript values                                                       *)
(***************************************************************************)
S(s) == [t |-> "string", v |-> s]

N(n) == [t |-> "number", v |-> n]

B(b) == [t |-> "boolean", v |-> b]

Null == [t |-> "null"]

Undefined == [t |-> "undefined"]

Arr(seq) == [t |-> "array", v |-> seq]

\* ToBoolean: what `if ( x )`, `! x`, `x && y` and `x || y` test.
Truthy(x) ==
    CASE x.t = "undefined" -> FALSE
      [] x.t = "null"      -> FALSE
      [] x.t = "boolean"   -> x.v
      [] x.t = "number"    -> x.v # 0
      [] x.t = "string"    -> x.v # ""
      [] OTHER             -> TRUE

\* x && y and x || y return one of their operands.
JsAnd(x, y) == IF Truthy(x) THEN y ELSE x

JsOr(x, y) == IF Truthy(x) THEN x ELSE y

\* The string a value is converted to, as a property name in obj[ x ] and in
\* a string concatenation.
PropertyKey(x) ==
    CASE x.t = "string"    -> x.v
      [] x.t = "number"    -> ToString(x.v)
      [] x.t = "undefined" -> "undefined"
      [] x.t = "null"      -> "null"
      [] x.t = "boolean"   -> IF x.v THEN "true" ELSE "false"

\* obj[ x ] on a plain object used as a map.
Prop(map, x) == IF PropertyKey(x) \in DOMAIN map THEN map[PropertyKey(x)] ELSE Undefined

\* lodash get( object, path, defaultValue ) for a path of one field.
Get(object, field, defaultValue) ==
    IF object.t = "object" /\ field \in DOMAIN object /\ object[field] # Undefined
    THEN object[field]
    ELSE defaultValue

(***************************************************************************)
(* The state tree and the data it holds                                    *)
(***************************************************************************)
ThemeIds == {"theme" \o ToString(i) : i \in 1..NumThemes}

\* The selectors read the slices of one site at a time: one site is modelled.
SiteIds == {1}

SiteKeys == {ToString(i) : i \in SiteIds}

EmptyMap == [k \in {} |-> Undefined]

\* A theme record of the WordPress.com directory.
WpcomRecord(id, premium) ==
    [t |-> "object", id |-> S(id),
     stylesheet |-> S((IF premium THEN "premium/" ELSE "pub/") \o id),
     premium |-> B(premium),
     price |-> IF premium THEN S("$50") ELSE Undefined,
     demo_uri |-> S("https://" \o id \o "demo.wordpress.com")]

\* A theme record of the WordPress.org directory.
WporgRecord(id) ==
    [t |-> "object", id |-> S(id), stylesheet |-> S(id),
     demo_uri |-> S("https://wp-themes.com/" \o id)]

\* A theme record of a Jetpack site's own collection.
SiteRecord(id) == [t |-> "object", id |-> S(id), stylesheet |-> S(id)]

\* A per-site theme collection (ThemeQueryManager): its items by theme id and,
\* by query, the item keys of the query's result set (Null: none received).
Manager(items, queries) == [t |-> "object", items |-> items, queries |-> queries]

\* manager.getItem( themeId )
getItem(manager, themeId) == Prop(manager.items, themeId)

\* The state tree after construction: every slice empty.
InitialState ==
    [themes |-> [queries |-> EmptyMap,
                 queryRequests |-> EmptyMap,
                 activeThemes |-> EmptyMap,
                 themeInstalls |-> EmptyMap,
                 recommendedThemes |-> [t |-> "object", isLoading |-> B(FALSE),
                                        themes |-> Arr(<<>>)],
                 themeHasAutoLoadingHomepageWarning |-> Null],
     sites |-> EmptyMap,
     purchases |-> EmptyMap,
     features |-> EmptyMap]

NoCall == [op |-> "none", args |-> <<>>]

\* The caches of the memoized selectors before any call: no dependants seen
\* yet, nothing cached.
EmptyCache ==
    [sel \in {"getTheme", "getThemesForQuery", "getThemesForQueryIgnoringPage",
              "isRequestingThemesForQueryIgnoringPage"} |->
        [dependants |-> [t |-> "none"], entries |-> EmptyMap]]

\* What a statement that throws yields: reading a property of null or undefined.
TypeError == [t |-> "throw"]

(***************************************************************************)
(* Selectors                                                               *)
(***************************************************************************)
getTheme(st, siteId, themeId) ==
    LET manager == Prop(st.themes.queries, siteId)
    IN  IF ~Truthy(manager) THEN Null ELSE getItem(manager, themeId)

\* lodash find( collection, predicate ): the first element the predicate
\* holds of, undefined when there is none.
RECURSIVE FindSource(_, _, _)
FindSource(st, sources, themeId) ==
    IF sources = <<>> THEN Undefined
    ELSE IF Truthy(getTheme(st, Head(sources), themeId)) THEN Head(sources)
    ELSE FindSource(st, Tail(sources), themeId)

getCanonicalTheme_wporgFirst(st, siteId, themeId) ==
    LET source == FindSource(st, <<S("wporg"), S("wpcom"), siteId>>, themeId)
    IN  getTheme(st, source, themeId)

getCanonicalTheme(st, siteId, themeId) ==
    LET source == FindSource(st, <<S("wpcom"), S("wporg"), siteId>>, themeId)
    IN  getTheme(st, source, themeId)

isWpcomTheme(st, themeId) == B(Truthy(getTheme(st, S("wpcom"), themeId)))

isWporgTheme(st, themeId) == B(Truthy(getTheme(st, S("wporg"), themeId)))

\* isPremium( theme ) of ./utils
isPremium(theme) == JsAnd(theme, Get(theme, "premium", B(FALSE)))

isThemePremium(st, themeId) ==
    LET theme == getTheme(st, S("wpcom"), themeId)
    IN  isPremium(theme)

getThemeForumUrl_wporgBeforePremium(st, themeId) ==
    IF Truthy(isWporgTheme(st, themeId))
    THEN S("//wordpress.org/support/theme/" \o PropertyKey(themeId))
    ELSE IF Truthy(isThemePremium(st, themeId))
    THEN S("//premium-themes.forums.wordpress.com/forum/" \o PropertyKey(themeId))
    ELSE IF Truthy(isWpcomTheme(st, themeId))
    THEN S("//en.forums.wordpress.com/forum/themes")
    ELSE Null

getThemeForumUrl(st, themeId) ==
    IF Truthy(isThemePremium(st, themeId))
    THEN S("//premium-themes.forums.wordpress.com/forum/" \o PropertyKey(themeId))
    ELSE IF Truthy(isWpcomTheme(st, themeId))
    THEN S("//en.forums.wordpress.com/forum/themes")
    ELSE IF Truthy(isWporgTheme(st, themeId))
    THEN S("//wordpress.org/support/theme/" \o PropertyKey(themeId))
    ELSE Null

(***************************************************************************)
(* Sibling selectors (state/sites, state/purchases, state/sites/plans)     *)
(***************************************************************************)
\* A site of state.sites: whether it is a Jetpack site, whether it has the
\* Jetpack themes extended features, whether it can be managed, its slug, its
\* admin_url option and its customizer URL.
Site(key, jetpack, extended) ==
    [t |-> "object", jetpack |-> B(jetpack), extended |-> B(extended),
     canManage |-> B(TRUE),
     admin_url |-> S("https://site" \o key \o ".example.com/wp-admin/"),
     slug |-> S("site" \o key \o ".example.com"),
     customizerUrl |-> S(IF jetpack
                         THEN "https://site" \o key \o ".example.com/wp-admin/customize.php?return=x"
                         ELSE "/customize/site" \o key \o ".example.com")]

\* A purchase of a site.
Purchase(productSlug, meta) ==
    [t |-> "object", productSlug |-> S(productSlug), meta |-> S(meta)]

FEATURE_UNLIMITED_PREMIUM_THEMES == "unlimited-premium-themes"

isJetpackSite(st, siteId) ==
    LET site == Prop(st.sites, siteId)
    IN  IF ~Truthy(site) THEN Null ELSE site.jetpack

hasJetpackSiteJetpackThemesExtendedFeatures(st, siteId) ==
    LET site == Prop(st.sites, siteId)
    IN  IF ~Truthy(site) THEN Null ELSE site.extended

getSiteSlug(st, siteId) ==
    LET site == Prop(st.sites, siteId)
    IN  IF ~Truthy(site) THEN Null ELSE site.slug

canJetpackSiteManage(st, siteId) ==
    LET site == Prop(st.sites, siteId)
    IN  IF ~Truthy(site) THEN Null ELSE site.canManage

getSiteOption(st, siteId, optionName) ==
    LET site == Prop(st.sites, siteId)
    IN  IF ~Truthy(site) THEN Null ELSE Get(site, optionName, Null)

\* config.isEnabled( flag )
isEnabled(flag) == B(flag \in config)

\* oldShowcaseUrl of ./utils
oldShowcaseUrl == "//wordpress.com/themes/"

getCustomizerUrl(st, siteId) ==
    LET site == Prop(st.sites, siteId)
    IN  IF ~Truthy(site) THEN S("/customize") ELSE site.customizerUrl

\* The purchases of the site, an array (empty when none is known).
getSitePurchases(st, siteId) ==
    LET purchases == Prop(st.purchases, siteId)
    IN  IF ~Truthy(purchases) THEN Arr(<<>>) ELSE purchases

hasFeature(st, siteId, featureId) ==
    B(/\ PropertyKey(siteId) \in DOMAIN st.features
      /\ featureId \in st.features[PropertyKey(siteId)])

(***************************************************************************)
(* Premium themes                                                          *)
(***************************************************************************)
\* lodash some( collection, { productSlug, meta } ): whether some element has
\* both properties equal to the given ones.
SomeMatches(collection, productSlug, meta) ==
    \E i \in 1..Len(collection.v) :
        /\ Get(collection.v[i], "productSlug", Undefined) = productSlug
        /\ Get(collection.v[i], "meta", Undefined) = meta

isThemePurchased(st, themeId, siteId) ==
    LET sitePurchases == getSitePurchases(st, siteId)
    IN  B(SomeMatches(sitePurchases, S("premium_theme"), themeId))

isPremiumThemeAvailable_both(st, themeId, siteId) ==
    JsAnd(isThemePurchased(st, themeId, siteId),
          hasFeature(st, siteId, FEATURE_UNLIMITED_PREMIUM_THEMES))

isPremiumThemeAvailable(st, themeId, siteId) ==
    JsOr(isThemePurchased(st, themeId, siteId),
         hasFeature(st, siteId, FEATURE_UNLIMITED_PREMIUM_THEMES))

isThemeAvailableOnJetpackSite_anyWpcom(st, themeId, siteId) ==
    JsOr(B(Truthy(getTheme(st, siteId, themeId))), isWpcomTheme(st, themeId))

isThemeAvailableOnJetpackSite(st, themeId, siteId) ==
    JsOr(B(Truthy(getTheme(st, siteId, themeId))),
         JsAnd(isWpcomTheme(st, themeId),
               hasJetpackSiteJetpackThemesExtendedFeatures(st, siteId)))

\* i18n.translate( 'Upgrade' )
UpgradeLabel == S("Upgrade")

getPremiumThemePrice_jetpackFirst(st, themeId, siteId) ==
    IF Truthy(isJetpackSite(st, siteId))
    THEN UpgradeLabel
    ELSE IF ~Truthy(isThemePremium(st, themeId))
            \/ Truthy(isPremiumThemeAvailable(st, themeId, siteId))
    THEN S("")
    ELSE Get(getTheme(st, S("wpcom"), themeId), "price", Undefined)

getPremiumThemePrice(st, themeId, siteId) ==
    IF ~Truthy(isThemePremium(st, themeId))
       \/ Truthy(isPremiumThemeAvailable(st, themeId, siteId))
    THEN S("")
    ELSE IF Truthy(isJetpackSite(st, siteId))
    THEN UpgradeLabel
    ELSE LET theme == getTheme(st, S("wpcom"), themeId)
         IN  Get(theme, "price", Undefined)

(***************************************************************************)
(* The active theme                                                        *)
(***************************************************************************)
\* The first index at which pattern occurs in str, 0 when it does not occur.
IndexOf(str, pattern) ==
    LET hits == {i \in 1..(Len(str) - Len(pattern) + 1) :
                    SubSeq(str, i, i + Len(pattern) - 1) = pattern}
    IN  IF hits = {} THEN 0 ELSE CHOOSE i \in hits : \A j \in hits : i <= j

\* String.prototype.replace( pattern, replacement ) with a string pattern:
\* the first occurrence of the pattern is replaced, wherever it is.
Replace(str, pattern, replacement) ==
    LET i == IndexOf(str, pattern)
    IN  IF i = 0 THEN str
        ELSE SubSeq(str, 1, i - 1) \o replacement
             \o SubSeq(str, i + Len(pattern), Len(str))

getActiveTheme_noGuard(st, siteId) ==
    LET activeTheme == LET found == Prop(st.themes.activeThemes, siteId)
                       IN  IF found = Undefined THEN Null ELSE found
    IN  IF activeTheme.t # "string" THEN TypeError
        ELSE S(Replace(activeTheme.v, "-wpcom", ""))

getActiveTheme(st, siteId) ==
    LET activeTheme == LET found == Prop(st.themes.activeThemes, siteId)
                       IN  IF found = Undefined THEN Null ELSE found
    IN  IF ~Truthy(activeTheme) THEN activeTheme
        ELSE S(Replace(activeTheme.v, "-wpcom", ""))

isThemeActive(st, themeId, siteId) == B(getActiveTheme(st, siteId) = themeId)

(***************************************************************************)
(* Themes of a query                                                       *)
(***************************************************************************)
\* manager.getItems( query ): null when no result set was received for the
\* query, otherwise the item of every key of the result set; a key of a page
\* known to exist but not yet received is undefined, and so is its item.
getItems(manager, query) ==
    IF query \notin DOMAIN manager.queries THEN Null
    ELSE LET itemKeys == manager.queries[query].v
         IN  Arr([i \in 1..Len(itemKeys) |-> getItem(manager, itemKeys[i])])

\* lodash includes( collection, value )
Includes(collection, value) == \E i \in 1..Len(collection) : collection[i] = value

\* lodash uniq( array ): the first occurrence of every element, in order.  The
\* items of a collection are one object per theme id, so that the same object
\* and an equal item are the same thing.
RECURSIVE Uniq(_)
Uniq(array) ==
    IF array = <<>> THEN <<>>
    ELSE LET front == SubSeq(array, 1, Len(array) - 1)
             last == array[Len(array)]
         IN  IF Includes(front, last) THEN Uniq(front) ELSE Append(Uniq(front), last)

getThemesForQuery_noUniq(st, siteId, query) ==
    LET manager == Prop(st.themes.queries, siteId)
    IN  IF ~Truthy(manager) THEN Null
        ELSE LET themes == getItems(manager, query)
             IN  IF ~Truthy(themes) THEN Null
                 ELSE IF Includes(themes.v, Undefined) THEN Null
                 ELSE themes

getThemesForQuery(st, siteId, query) ==
    LET manager == Prop(st.themes.queries, siteId)
    IN  IF ~Truthy(manager) THEN Null
        ELSE LET themes == getItems(manager, query)
             IN  IF ~Truthy(themes) THEN Null
                 ELSE IF Includes(themes.v, Undefined) THEN Null
                 ELSE Arr(Uniq(themes.v))

(***************************************************************************)
(* URLs                                                                    *)
(***************************************************************************)
getThemeDetailsUrl_noGuard(st, themeId, siteId) ==
    LET baseUrl == IF Truthy(isEnabled("manage/themes/details"))
                   THEN "/theme/" \o PropertyKey(themeId)
                   ELSE oldShowcaseUrl \o PropertyKey(themeId)
    IN  S(baseUrl \o (IF Truthy(siteId)
                      THEN "/" \o PropertyKey(getSiteSlug(st, siteId))
                      ELSE ""))

getThemeDetailsUrl(st, themeId, siteId) ==
    IF ~Truthy(themeId) THEN Null
    ELSE IF /\ Truthy(isJetpackSite(st, siteId))
            /\ ~(/\ Truthy(isEnabled("manage/themes/details/jetpack"))
                 /\ Truthy(canJetpackSiteManage(st, siteId))
                 /\ Truthy(hasJetpackSiteJetpackThemesExtendedFeatures(st, siteId)))
    THEN S(PropertyKey(getSiteOption(st, siteId, "admin_url"))
           \o "themes.php?theme=" \o PropertyKey(themeId))
    ELSE LET baseUrl == IF Truthy(isEnabled("manage/themes/details"))
                        THEN "/theme/" \o PropertyKey(themeId)
                        ELSE oldShowcaseUrl \o PropertyKey(themeId)
         IN  S(baseUrl \o (IF Truthy(siteId)
                           THEN "/" \o PropertyKey(getSiteSlug(st, siteId))
                           ELSE ""))

getThemeSupportUrl(st, themeId, siteId) ==
    IF ~Truthy(themeId) \/ ~Truthy(isThemePremium(st, themeId)) THEN Null
    ELSE LET sitePart == IF Truthy(siteId)
                         THEN "/" \o PropertyKey(getSiteSlug(st, siteId))
                         ELSE ""
         IN  IF Truthy(isEnabled("manage/themes/details"))
             THEN S("/theme/" \o PropertyKey(themeId) \o "/setup" \o sitePart)
             ELSE S(oldShowcaseUrl \o sitePart \o PropertyKey(themeId) \o "/support")

getThemeHelpUrl(st, themeId, siteId) ==
    IF ~Truthy(themeId) THEN Null
    ELSE LET baseUrl == IF Truthy(isEnabled("manage/themes/details"))
                        THEN "/theme/" \o PropertyKey(themeId) \o "/support"
                        ELSE oldShowcaseUrl \o PropertyKey(themeId)
         IN  S(baseUrl \o (IF Truthy(siteId)
                           THEN "/" \o PropertyKey(getSiteSlug(st, siteId))
                           ELSE ""))

getThemePurchaseUrl(st, themeId, siteId) ==
    IF Truthy(isJetpackSite(st, siteId)) \/ ~Truthy(isThemePremium(st, themeId))
    THEN Null
    ELSE S("/checkout/" \o PropertyKey(getSiteSlug(st, siteId))
           \o "/theme:" \o PropertyKey(themeId))

getThemeCustomizeUrl_questionMark(st, themeId, siteId) ==
    LET customizerUrl == getCustomizerUrl(st, siteId)
    IN  IF ~(Truthy(siteId) /\ Truthy(themeId)) \/ Truthy(isThemeActive(st, themeId, siteId))
        THEN customizerUrl
        ELSE LET separator == "?"
             IN  IF Truthy(isJetpackSite(st, siteId))
                 THEN S(PropertyKey(customizerUrl) \o separator \o "theme=" \o PropertyKey(themeId))
                 ELSE LET theme == getTheme(st, S("wpcom"), themeId)
                      IN  IF ~Truthy(theme) THEN customizerUrl
                          ELSE S(PropertyKey(customizerUrl) \o separator \o "theme="
                                 \o PropertyKey(Get(theme, "stylesheet", Undefined)))

getThemeCustomizeUrl(st, themeId, siteId) ==
    LET customizerUrl == getCustomizerUrl(st, siteId)
    IN  IF ~(Truthy(siteId) /\ Truthy(themeId)) \/ Truthy(isThemeActive(st, themeId, siteId))
        THEN customizerUrl
        ELSE LET separator == IF IndexOf(PropertyKey(customizerUrl), "?") # 0 THEN "&" ELSE "?"
             IN  IF Truthy(isJetpackSite(st, siteId))
                 THEN S(PropertyKey(customizerUrl) \o separator \o "theme=" \o PropertyKey(themeId))
                 ELSE LET theme == getTheme(st, S("wpcom"), themeId)
                      IN  IF ~Truthy(theme) THEN customizerUrl
                          ELSE S(PropertyKey(customizerUrl) \o separator \o "theme="
                                 \o PropertyKey(Get(theme, "stylesheet", Undefined)))

getThemeSignupUrl(st, themeId) ==
    IF ~Truthy(themeId) THEN Null
    ELSE LET url == "/start/with-theme?ref=calypshowcase&theme=" \o PropertyKey(themeId)
         IN  IF Truthy(isThemePremium(st, themeId))
             THEN S(url \o "&premium=true")
             ELSE S(url)

getThemeDemoUrl(st, themeId, siteId) ==
    LET theme == getCanonicalTheme(st, siteId, themeId)
    IN  Get(theme, "demo_uri", Undefined)

(***************************************************************************)
(* The auto-loading-homepage warning                                       *)
(***************************************************************************)
\* get( state.themes, [ 'themeHasAutoLoadingHomepageWarning', field ] )
GetWarningField(st, field) ==
    Get(st.themes.themeHasAutoLoadingHomepageWarning, field, Undefined)

getPreActivateThemeId(st) == GetWarningField(st, "themeId")

shouldShowHomepageWarning_anyThemeId(st, themeId) == GetWarningField(st, "show")

hasAutoLoadingHomepageModalAccepted_anyThemeId(st, themeId) ==
    GetWarningField(st, "accepted")

shouldShowHomepageWarning(st, themeId) ==
    JsAnd(B(GetWarningField(st, "themeId") = themeId), GetWarningField(st, "show"))

hasAutoLoadingHomepageModalAccepted(st, themeId) ==
    JsAnd(B(GetWarningField(st, "themeId") = themeId), GetWarningField(st, "accepted"))

(***************************************************************************)
(* Queries: normalization and serialization (./utils, ./constants)         *)
(***************************************************************************)
\* DEFAULT_THEME_QUERY: the value a query field has when the query omits it.
DEFAULT_THEME_QUERY ==
    [t |-> "object", search |-> S(""), tier |-> S(""), filter |-> S(""),
     number |-> N(20), offset |-> N(0), page |-> N(1)]

\* lodash omit( object, field )
Omit(object, field) == [f \in DOMAIN object \ {field} |-> object[f]]

\* getNormalizedThemesQuery: the query without the fields that carry their
\* default value.
getNormalizedThemesQuery(query) ==
    [f \in {g \in DOMAIN query :
               g = "t" \/ g \notin DOMAIN DEFAULT_THEME_QUERY
                       \/ DEFAULT_THEME_QUERY[g] # query[g]} |-> query[f]]

\* JSON.stringify of the given fields of a query object, strings quoted.
RECURSIVE JsonFields(_, _)
JsonFields(query, fields) ==
    IF fields = <<>> THEN ""
    ELSE LET rest == JsonFields(query, Tail(fields))
             field == Head(fields)
         IN  IF field \notin DOMAIN query THEN rest
             ELSE "\"" \o field \o "\":"
                  \o (IF query[field].t = "string" THEN "\"" \o query[field].v \o "\""
                      ELSE ToString(query[field].v))
                  \o (IF rest = "" THEN "" ELSE "," \o rest)

\* JSON.stringify of a query object.
JsonStringify(query) ==
    "{" \o JsonFields(query, <<"search", "tier", "filter", "number", "offset", "page">>) \o "}"

\* getSerializedThemesQuery( query = {}, siteId ): the JSON of the normalized
\* query, preceded by the site id and a colon when a site id is given.
getSerializedThemesQuery(query, siteId) ==
    LET given == IF query = Undefined THEN [t |-> "object"] ELSE query
        serializedQuery == JsonStringify(getNormalizedThemesQuery(given))
    IN  IF Truthy(siteId) THEN PropertyKey(siteId) \o ":" \o serializedQuery
        ELSE serializedQuery

getSerializedThemesQueryWithoutPage(query, siteId) ==
    getSerializedThemesQuery(Omit(query, "page"), siteId)

\* The query objects that are written and read back.
JsonQueries ==
    {[f \in {"t"} \cup fields |->
         CASE f = "t" -> "object" [] f = "search" -> S("blog") [] f = "page" -> N(2)] :
        fields \in SUBSET {"search", "page"}}

\* JSON.parse of a written query; what is not the JSON of a query throws, and
\* the caller keeps the empty query.
JsonParse(str) ==
    IF \E q \in JsonQueries : JsonStringify(q) = str
    THEN CHOOSE q \in JsonQueries : JsonStringify(q) = str
    ELSE [t |-> "object"]

\* The number of leading decimal digits of a string.
RECURSIVE LeadingDigits(_)
LeadingDigits(str) ==
    IF str = "" \/ SubSeq(str, 1, 1) \notin {ToString(d) : d \in 0..9} THEN 0
    ELSE 1 + LeadingDigits(SubSeq(str, 2, Len(str)))

\* Number( digits )
RECURSIVE ToNumber(_)
ToNumber(digits) ==
    IF digits = "" THEN 0
    ELSE LET last == SubSeq(digits, Len(digits), Len(digits))
         IN  10 * ToNumber(SubSeq(digits, 1, Len(digits) - 1))
             + (CHOOSE d \in 0..9 : ToString(d) = last)

\* getDeserializedThemesQueryDetails: the site id and the query a serialized
\* query was written from; the site id is the number before the first colon,
\* undefined when the string does not start with digits and a colon.
getDeserializedThemesQueryDetails(serializedQuery) ==
    LET n == LeadingDigits(serializedQuery)
        prefixed == n > 0 /\ n < Len(serializedQuery)
                    /\ SubSeq(serializedQuery, n + 1, n + 1) = ":"
        siteId == IF prefixed THEN JsOr(N(ToNumber(SubSeq(serializedQuery, 1, n))), Undefined)
                  ELSE Undefined
        json == IF prefixed THEN SubSeq(serializedQuery, n + 2, Len(serializedQuery))
                ELSE serializedQuery
    IN  [siteId |-> siteId, query |-> JsonParse(json)]

(***************************************************************************)
(* Themes of a query, whatever the page                                    *)
(***************************************************************************)
\* The page a query asks for.
PageOf(query) == IF "page" \in DOMAIN query THEN query.page.v ELSE DEFAULT_THEME_QUERY.page.v

\* The items of the result sets of the pages before the given one.
RECURSIVE ItemsOfPages(_, _, _)
ItemsOfPages(manager, queries, page) ==
    IF page = 0 THEN <<>>
    ELSE LET ofPage == {q \in queries : PageOf(q) = page}
             before == ItemsOfPages(manager, queries, page - 1)
         IN  IF ofPage = {} THEN before
             ELSE before \o getItems(manager, CHOOSE q \in ofPage : TRUE).v

\* manager.getItemsIgnoringPage( query ): null when no page of the query was
\* received, otherwise the items received for the query, page after page,
\* without the unresolved ones.
getItemsIgnoringPage(manager, query) ==
    LET pages == {q \in DOMAIN manager.queries : Omit(q, "page") = Omit(query, "page")}
        last == IF pages = {} THEN 0
                ELSE CHOOSE p \in {PageOf(q) : q \in pages} :
                        \A q \in pages : PageOf(q) <= p
    IN  IF pages = {} THEN Null
        ELSE Arr(SelectSeq(ItemsOfPages(manager, pages, last),
                           LAMBDA item : item # Undefined))

\* theme.id: reading a property of null or undefined throws.
Member(object, field) ==
    IF object \in {Null, Undefined} THEN TypeError ELSE Get(object, field, Undefined)

getThemesForQueryIgnoringPage(st, siteId, query) ==
    LET themes == Prop(st.themes.queries, siteId)
    IN  IF ~Truthy(themes) THEN Null
        ELSE LET themesForQueryIgnoringPage == getItemsIgnoringPage(themes, query)
             IN  IF ~Truthy(themesForQueryIgnoringPage) THEN Null
                 ELSE IF ~Truthy(JsOr(JsOr(Get(query, "search", Undefined),
                                           Get(query, "filter", Undefined)),
                                      Get(query, "tier", Undefined)))
                 THEN LET recommendedThemes == st.themes.recommendedThemes.themes
                          themeIds == IF recommendedThemes.t # "array" THEN <<>>
                                      ELSE [i \in 1..Len(recommendedThemes.v) |->
                                               Member(recommendedThemes.v[i], "id")]
                          ids == [i \in 1..Len(themesForQueryIgnoringPage.v) |->
                                     Member(themesForQueryIgnoringPage.v[i], "id")]
                      IN  IF Includes(themeIds, TypeError) \/ Includes(ids, TypeError)
                          THEN TypeError
                          ELSE Arr(Uniq(SelectSeq(themesForQueryIgnoringPage.v,
                                   LAMBDA theme : ~Includes(themeIds, Member(theme, "id")))))
                 ELSE Arr(Uniq(themesForQueryIgnoringPage.v))

(***************************************************************************)
(* Requests of a query                                                     *)
(***************************************************************************)
isRequestingThemesForQuery(st, siteId, query) ==
    LET serializedQuery == getSerializedThemesQuery(query, siteId)
    IN  B(Truthy(Prop(st.themes.queryRequests, S(serializedQuery))))

isRequestingThemesForQueryIgnoringPage_anySite(st, siteId, query) ==
    LET normalizedQueryWithoutPage == Omit(getNormalizedThemesQuery(query), "page")
    IN  B(\E serializedQuery \in DOMAIN st.themes.queryRequests :
            /\ Truthy(st.themes.queryRequests[serializedQuery])
            /\ LET queryDetails == getDeserializedThemesQueryDetails(serializedQuery)
               IN  normalizedQueryWithoutPage = Omit(queryDetails.query, "page"))

isRequestingThemesForQueryIgnoringPage(st, siteId, query) ==
    LET normalizedQueryWithoutPage == Omit(getNormalizedThemesQuery(query), "page")
    IN  B(\E serializedQuery \in DOMAIN st.themes.queryRequests :
            /\ Truthy(st.themes.queryRequests[serializedQuery])
            /\ LET queryDetails == getDeserializedThemesQueryDetails(serializedQuery)
               IN  /\ queryDetails.siteId = siteId
                   /\ normalizedQueryWithoutPage = Omit(queryDetails.query, "page"))

(***************************************************************************)
(* Memoization (lib/create-selector)                                       *)
(***************************************************************************)
\* An argument in args.join(): null and undefined are written as nothing.
JoinArg(x) == IF x \in {Null, Undefined} THEN "" ELSE PropertyKey(x)

\* createSelector( selector, getDependants, getCacheKey ), called: the cache
\* of the selector is emptied when the dependants are not those of the
\* previous call; the result cached under the cache key is returned, and
\* when there is none the selector is computed and its result cached.
Memoized(c, sel, dependants, cacheKey, computed) ==
    LET entries == IF c[sel].dependants.t # "none"
                      /\ c[sel].dependants.v # dependants
                   THEN EmptyMap
                   ELSE c[sel].entries
        result == IF cacheKey \in DOMAIN entries THEN entries[cacheKey] ELSE computed
    IN  [ret |-> result,
         cache |-> [c EXCEPT ![sel] =
                      [dependants |-> [t |-> "dependants", v |-> dependants],
                       entries |-> [k \in DOMAIN entries \cup {cacheKey} |->
                                       IF k = cacheKey THEN result ELSE entries[k]]]]]

\* The selectors as exported: each computation with its dependants and its
\* cache key.
Memoized_getTheme(c, st, siteId, themeId) ==
    Memoized(c, "getTheme", st.themes.queries,
             JoinArg(siteId) \o "," \o JoinArg(themeId),
             getTheme(st, siteId, themeId))

Memoized_getThemesForQuery(c, st, siteId, query) ==
    Memoized(c, "getThemesForQuery", st.themes.queries,
             getSerializedThemesQuery(query, siteId),
             getThemesForQuery(st, siteId, query))

Memoized_getThemesForQueryIgnoringPage(c, st, siteId, query) ==
    Memoized(c, "getThemesForQueryIgnoringPage", st.themes.queries,
             getSerializedThemesQueryWithoutPage(query, siteId),
             getThemesForQueryIgnoringPage(st, siteId, query))

Memoized_isRequestingThemesForQueryIgnoringPage(c, st, siteId, query) ==
    Memoized(c, "isRequestingThemesForQueryIgnoringPage", st.themes.queryRequests,
             getSerializedThemesQuery(query, siteId),
             isRequestingThemesForQueryIgnoringPage(st, siteId, query))

(***************************************************************************)
(* Installation of a theme on a Jetpack site                               *)
(***************************************************************************)
getSuffixedThemeId(st, themeId, siteId) ==
    LET siteIsJetpack == JsAnd(siteId, isJetpackSite(st, siteId))
    IN  IF Truthy(siteIsJetpack) /\ ~Truthy(getTheme(st, siteId, themeId))
        THEN S(PropertyKey(themeId) \o "-wpcom")
        ELSE themeId

isInstallingTheme_bare(st, themeId, siteId) ==
    LET ofSite == Prop(st.themes.themeInstalls, siteId)
    IN  IF ofSite = Undefined THEN B(FALSE)
        ELSE IF Prop(ofSite, themeId) = Undefined THEN B(FALSE)
        ELSE Prop(ofSite, themeId)

isInstallingTheme(st, themeId, siteId) ==
    LET suffixedThemeId == getSuffixedThemeId(st, themeId, siteId)
        ofSite == Prop(st.themes.themeInstalls, siteId)
    IN  IF ofSite = Undefined THEN B(FALSE)
        ELSE IF Prop(ofSite, suffixedThemeId) = Undefined THEN B(FALSE)
        ELSE Prop(ofSite, suffixedThemeId)

(***************************************************************************)
(* The total of the checkout                                               *)
(***************************************************************************)
\* ( value / 100 ).toString() for an integer value: the quotient, and after
\* a point the digits of the remainder that are not trailing zeros.
FloatToString(value) ==
    LET cents == IF value < 0 THEN -value ELSE value
        fraction == cents % 100
    IN  (IF value < 0 THEN "-" ELSE "") \o ToString(cents \div 100)
        \o (IF fraction = 0 THEN ""
            ELSE IF fraction % 10 = 0 THEN "." \o ToString(fraction \div 10)
            ELSE "." \o ToString(fraction \div 10) \o ToString(fraction % 10))

formatValueForCurrency(currency, value) ==
    IF currency # S("USD")
    THEN [t |-> "throw", message |-> "Unsupported currency " \o PropertyKey(currency) \o "'"]
    ELSE S("$" \o FloatToString(value.v))

\* items.reduce( ( sum, item ) => sum + item.amount.value, 0 )
RECURSIVE LineItemTotal(_)
LineItemTotal(items) ==
    IF items = <<>> THEN 0
    ELSE LineItemTotal(SubSeq(items, 1, Len(items) - 1)) + items[Len(items)].amount.value.v

getTotal_firstCurrency(items) ==
    LET lineItemTotal == N(LineItemTotal(items))
        currency == IF items = <<>> THEN S("USD") ELSE items[1].amount.currency
        displayValue == formatValueForCurrency(currency, lineItemTotal)
    IN  IF displayValue.t = "throw" THEN displayValue
        ELSE [t |-> "object", label |-> S("Total"),
              amount |-> [t |-> "object", currency |-> currency, value |-> lineItemTotal,
                          displayValue |-> displayValue]]

getTotal(items) ==
    LET lineItemTotal == N(LineItemTotal(items))
        currency == IF items = <<>> THEN S("USD") ELSE items[Len(items)].amount.currency
        displayValue == formatValueForCurrency(currency, lineItemTotal)
    IN  IF displayValue.t = "throw" THEN displayValue
        ELSE [t |-> "object", label |-> S("Total"),
              amount |-> [t |-> "object", currency |-> currency, value |-> lineItemTotal,
                          displayValue |-> displayValue]]

(***************************************************************************)
(* The last page of a query                                                *)
(***************************************************************************)
\* manager.getNumberOfPages( query ): null when the number of themes found
\* for the query, whatever its page, is not known, otherwise the number of
\* pages that hold them.
getNumberOfPages(manager, query) ==
    LET key == Omit(query, "page")
        perPage == JsOr(Get(query, "number", Undefined), DEFAULT_THEME_QUERY.number).v
    IN  IF "found" \notin DOMAIN manager \/ key \notin DOMAIN manager.found THEN Null
        ELSE N((manager.found[key].v + perPage - 1) \div perPage)

getThemesLastPageForQuery_pagesOnJetpack(st, siteId, query) ==
    LET manager == Prop(st.themes.queries, siteId)
    IN  IF ~Truthy(manager) THEN Null
        ELSE LET pages == getNumberOfPages(manager, query)
             IN  IF pages = Null THEN Null
                 ELSE IF pages.v > 1 THEN pages ELSE N(1)

getThemesLastPageForQuery(st, siteId, query) ==
    LET manager == Prop(st.themes.queries, siteId)
    IN  IF ~Truthy(manager) THEN Null
        ELSE LET pages == getNumberOfPages(manager, query)
             IN  IF pages = Null THEN Null
                 ELSE IF Truthy(isJetpackSite(st, siteId)) THEN N(1)
                 ELSE IF pages.v > 1 THEN pages ELSE N(1)

isThemesLastPageForQuery(st, siteId, given) ==
    LET query == IF given = Undefined THEN [t |-> "object"] ELSE given
        lastPage == getThemesLastPageForQuery(st, siteId, query)
    IN  IF lastPage = Null THEN lastPage
        ELSE B(lastPage = JsOr(Get(query, "page", Undefined), DEFAULT_THEME_QUERY.page))

(***************************************************************************)
(* The plan upgrade of a Jetpack site                                      *)
(***************************************************************************)
getJetpackUpgradeUrlIfPremiumTheme_anySite(st, themeId, siteId) ==
    IF /\ Truthy(isThemePremium(st, themeId))
       /\ ~Truthy(hasFeature(st, siteId, FEATURE_UNLIMITED_PREMIUM_THEMES))
    THEN S("/checkout/" \o PropertyKey(getSiteSlug(st, siteId)) \o "/professional")
    ELSE Null

getJetpackUpgradeUrlIfPremiumTheme(st, themeId, siteId) ==
    IF /\ Truthy(isJetpackSite(st, siteId))
       /\ Truthy(isThemePremium(st, themeId))
       /\ ~Truthy(hasFeature(st, siteId, FEATURE_UNLIMITED_PREMIUM_THEMES))
    THEN S("/checkout/" \o PropertyKey(getSiteSlug(st, siteId)) \o "/professional")
    ELSE Null

(***************************************************************************)
(* Inputs                                                                  *)
(***************************************************************************)
\* The theme id arguments: every theme id, and the absent ones.
ThemeIdArgs == {S(id) : id \in ThemeIds} \cup {Null, Undefined, S("")}

\* The site id arguments: every site id, and none.
SiteIdArgs == {N(i) : i \in SiteIds} \cup {Undefined}

WpcomManagers ==
    {Manager([id \in DOMAIN f |-> WpcomRecord(id, f[id])], EmptyMap) :
        f \in UNION {[D -> BOOLEAN] : D \in SUBSET ThemeIds}}

WporgManagers ==
    {Manager([id \in D |-> WporgRecord(id)], EmptyMap) : D \in SUBSET ThemeIds}

SiteManagers ==
    {Manager([id \in D |-> SiteRecord(id)], EmptyMap) : D \in SUBSET ThemeIds}

\* state.themes.queries with the wpcom collection w, the wporg collection o and
\* the sites' collections sm; Undefined stands for a collection not yet created.
MkQueries(w, o, sm) ==
    LET present == {k \in {"wpcom"} : w # Undefined}
                   \cup {k \in {"wporg"} : o # Undefined}
                   \cup {k \in SiteKeys : sm[k] # Undefined}
    IN  [k \in present |-> IF k = "wpcom" THEN w ELSE IF k = "wporg" THEN o ELSE sm[k]]

AllQueries ==
    {MkQueries(w, o, sm) :
        w \in WpcomManagers \cup {Undefined},
        o \in WporgManagers \cup {Undefined},
        sm \in [SiteKeys -> SiteManagers \cup {Undefined}]}

\* A map without the property names whose choice is Undefined.
Compact(choice) == [k \in {k \in DOMAIN choice : choice[k] # Undefined} |-> choice[k]]

PurchasePool ==
    {Purchase(slug, id) : slug \in {"premium_theme", "value_bundle"}, id \in ThemeIds}

\* state.purchases: per site nothing, or an array of at most MaxPurchases purchases.
AllPurchases ==
    {Compact(c) :
        c \in [SiteKeys ->
                {Undefined} \cup {Arr(ps) : ps \in UNION {[1..n -> PurchasePool] : n \in 0..MaxPurchases}}]}

\* state.features: per site the plan features it has.
AllFeatures == [SiteKeys -> SUBSET {FEATURE_UNLIMITED_PREMIUM_THEMES}]

\* state.sites: per site nothing (site unknown) or the site; a site without
\* Jetpack has no Jetpack extended features.
SiteChoices(k) ==
    {Undefined, Site(k, FALSE, FALSE), Site(k, TRUE, FALSE), Site(k, TRUE, TRUE)}

AllSites ==
    {Compact(c) : c \in {f \in [SiteKeys -> UNION {SiteChoices(k) : k \in SiteKeys}] :
                            \A k \in SiteKeys : f[k] \in SiteChoices(k)}}

(***************************************************************************)
(* Calls of the selectors.  The layer is single-threaded and synchronous:  *)
(* a call is made when no call is in progress, and returns.                *)
(***************************************************************************)
Return ==
    /\ call # NoCall
    /\ call' = NoCall
    /\ ret' = Undefined
    /\ UNCHANGED <<env, cache>>

Call_getTheme ==
    \E siteId \in SiteIdArgs \cup {S("wpcom"), S("wporg")}, themeId \in ThemeIdArgs :
        /\ call = NoCall
        /\ call' = [op |-> "getTheme", args |-> <<siteId, themeId>>]
        /\ ret' = getTheme(state, siteId, themeId)
        /\ UNCHANGED <<env, cache>>

Call_getCanonicalTheme ==
    \E siteId \in SiteIdArgs, themeId \in ThemeIdArgs :
        /\ call = NoCall
        /\ call' = [op |-> "getCanonicalTheme", args |-> <<siteId, themeId>>]
        /\ ret' = getCanonicalTheme(state, siteId, themeId)
        /\ UNCHANGED <<env, cache>>

Call_getThemeForumUrl ==
    \E themeId \in ThemeIdArgs :
        /\ call = NoCall
        /\ call' = [op |-> "getThemeForumUrl", args |-> <<themeId>>]
        /\ ret' = getThemeForumUrl(state, themeId)
        /\ UNCHANGED <<env, cache>>

(***************************************************************************)
(* Specification of the theme directories: canonical resolution and the    *)
(* forum URL, over every content of the wpcom, wporg and site collections. *)
(***************************************************************************)
InitCanonical ==
    /\ state \in {[InitialState EXCEPT !.themes.queries = q] : q \in AllQueries}
    /\ config = {}
    /\ cache = EmptyCache
    /\ call = NoCall
    /\ ret = Undefined

NextCanonical ==
    \/ Call_getTheme
    \/ Call_getCanonicalTheme
    \/ Call_getThemeForumUrl
    \/ Return

SpecCanonical == InitCanonical /\ [][NextCanonical]_vars

(***************************************************************************)
(* Claims on the theme directories                                         *)
(***************************************************************************)
\* Whether the collection stored under the property name `source` holds an
\* item under the property name of themeId.
Holds(st, source, themeId) ==
    /\ source \in DOMAIN st.themes.queries
    /\ PropertyKey(themeId) \in DOMAIN st.themes.queries[source].items

ItemOf(st, source, themeId) == st.themes.queries[source].items[PropertyKey(themeId)]

\* C1: getCanonicalTheme returns the record of the first of 'wpcom', 'wporg',
\* siteId whose collection contains themeId (the wpcom record when wpcom and
\* wporg both contain it), and null when no source contains it.
C1_CanonicalPriority ==
    call.op = "getCanonicalTheme" =>
        LET siteId == call.args[1]
            themeId == call.args[2]
        IN  ret = IF Holds(state, "wpcom", themeId) THEN ItemOf(state, "wpcom", themeId)
                  ELSE IF Holds(state, "wporg", themeId) THEN ItemOf(state, "wporg", themeId)
                  ELSE IF Holds(state, PropertyKey(siteId), themeId)
                       THEN ItemOf(state, PropertyKey(siteId), themeId)
                  ELSE Null

C1_Witness ==
    /\ call.op = "getCanonicalTheme"
    /\ Holds(state, "wpcom", call.args[2])
    /\ Holds(state, "wporg", call.args[2])
    /\ ret = ItemOf(state, "wpcom", call.args[2])
    /\ ret # ItemOf(state, "wporg", call.args[2])

\* C8: getThemeForumUrl applies the precedence premium > wpcom > wporg: a
\* premium theme gets the premium forum URL ending in its id even when wporg
\* has it too, a non-premium wpcom theme the generic wpcom themes forum URL
\* even when wporg has it too, a theme only in wporg the wporg support URL
\* with its id, and a theme in none of them null.
C8_ForumPrecedence ==
    call.op = "getThemeForumUrl" =>
        LET themeId == call.args[1]
            inWpcom == Holds(state, "wpcom", themeId)
            inWporg == Holds(state, "wporg", themeId)
            premium == inWpcom /\ ItemOf(state, "wpcom", themeId).premium = B(TRUE)
        IN  /\ premium =>
                ret = S("//premium-themes.forums.wordpress.com/forum/" \o themeId.v)
            /\ inWpcom /\ ~premium => ret = S("//en.forums.wordpress.com/forum/themes")
            /\ ~inWpcom /\ inWporg => ret = S("//wordpress.org/support/theme/" \o themeId.v)
            /\ ~inWpcom /\ ~inWporg => ret = Null

C8_Witness ==
    /\ call.op = "getThemeForumUrl"
    /\ Holds(state, "wpcom", call.args[1])
    /\ Holds(state, "wporg", call.args[1])
    /\ ItemOf(state, "wpcom", call.args[1]).premium = B(TRUE)
    /\ ret = S("//premium-themes.forums.wordpress.com/forum/" \o call.args[1].v)

(***************************************************************************)
(* Specification of premium themes: purchases, plan features and prices,   *)
(* over every content of the wpcom collection, the sites, their purchases  *)
(* and their plan features.                                                *)
(***************************************************************************)
Call_isThemePurchased ==
    \E siteId \in SiteIdArgs, themeId \in ThemeIdArgs :
        /\ call = NoCall
        /\ call' = [op |-> "isThemePurchased", args |-> <<themeId, siteId>>]
        /\ ret' = isThemePurchased(state, themeId, siteId)
        /\ UNCHANGED <<env, cache>>

Call_isPremiumThemeAvailable ==
    \E siteId \in SiteIdArgs, themeId \in ThemeIdArgs :
        /\ call = NoCall
        /\ call' = [op |-> "isPremiumThemeAvailable", args |-> <<themeId, siteId>>]
        /\ ret' = isPremiumThemeAvailable(state, themeId, siteId)
        /\ UNCHANGED <<env, cache>>

Call_getPremiumThemePrice ==
    \E siteId \in SiteIdArgs, themeId \in ThemeIdArgs :
        /\ call = NoCall
        /\ call' = [op |-> "getPremiumThemePrice", args |-> <<themeId, siteId>>]
        /\ ret' = getPremiumThemePrice(state, themeId, siteId)
        /\ UNCHANGED <<env, cache>>

InitPremium ==
    /\ state \in {[InitialState EXCEPT !.themes.queries = Compact([wpcom |-> w]),
                                       !.sites = sites,
                                       !.purchases = purchases,
                                       !.features = features] :
                    w \in WpcomManagers \cup {Undefined},
                    sites \in AllSites,
                    purchases \in AllPurchases,
                    features \in AllFeatures}
    /\ config = {}
    /\ cache = EmptyCache
    /\ call = NoCall
    /\ ret = Undefined

NextPremium ==
    \/ Call_isThemePurchased
    \/ Call_isPremiumThemeAvailable
    \/ Call_getPremiumThemePrice
    \/ Return

SpecPremium == InitPremium /\ [][NextPremium]_vars

\* Whether the purchases of the site hold a 'premium_theme' purchase of themeId.
HasPurchase(st, themeId, siteId) ==
    /\ PropertyKey(siteId) \in DOMAIN st.purchases
    /\ \E i \in 1..Len(st.purchases[PropertyKey(siteId)].v) :
          LET purchase == st.purchases[PropertyKey(siteId)].v[i]
          IN  purchase.productSlug = S("premium_theme") /\ purchase.meta = themeId

HasUnlimited(st, siteId) ==
    /\ PropertyKey(siteId) \in DOMAIN st.features
    /\ "unlimited-premium-themes" \in st.features[PropertyKey(siteId)]

\* C4: isPremiumThemeAvailable is true if and only if the site's purchases
\* contain a purchase with productSlug 'premium_theme' and meta equal to
\* themeId, or the site has the unlimited-premium-themes feature.
C4_PremiumAvailable ==
    call.op = "isPremiumThemeAvailable" =>
        ret = B(HasPurchase(state, call.args[1], call.args[2])
                \/ HasUnlimited(state, call.args[2]))

\* The four cases of C4 are told apart by the purchased-only one.
C4_Witness ==
    /\ call.op = "isPremiumThemeAvailable"
    /\ HasPurchase(state, call.args[1], call.args[2])
    /\ ~HasUnlimited(state, call.args[2])
    /\ ret = B(TRUE)

\* C5: getPremiumThemePrice returns '' when the theme is not premium or is
\* already available on the site; otherwise 'Upgrade' on a Jetpack site;
\* otherwise the price of the wpcom record; tested in this order.
C5_PremiumPrice ==
    call.op = "getPremiumThemePrice" =>
        LET themeId == call.args[1]
            siteId == call.args[2]
            premium == /\ Holds(state, "wpcom", themeId)
                       /\ ItemOf(state, "wpcom", themeId).premium = B(TRUE)
            available == HasPurchase(state, themeId, siteId) \/ HasUnlimited(state, siteId)
            jetpack == /\ PropertyKey(siteId) \in DOMAIN state.sites
                       /\ state.sites[PropertyKey(siteId)].jetpack = B(TRUE)
        IN  /\ ~premium \/ available => ret = S("")
            /\ premium /\ ~available /\ jetpack => ret = S("Upgrade")
            /\ premium /\ ~available /\ ~jetpack => ret = ItemOf(state, "wpcom", themeId).price

\* A premium theme already available on a Jetpack site: '' and not 'Upgrade'.
C5_Witness ==
    /\ call.op = "getPremiumThemePrice"
    /\ Holds(state, "wpcom", call.args[1])
    /\ ItemOf(state, "wpcom", call.args[1]).premium = B(TRUE)
    /\ HasUnlimited(state, call.args[2])
    /\ PropertyKey(call.args[2]) \in DOMAIN state.sites
    /\ state.sites[PropertyKey(call.args[2])].jetpack = B(TRUE)
    /\ ret = S("")

(***************************************************************************)
(* Specification of Jetpack sites: which themes are available on a site,   *)
(* over every content of the wpcom and site collections and the sites.     *)
(***************************************************************************)
Call_isThemeAvailableOnJetpackSite ==
    \E siteId \in SiteIdArgs, themeId \in ThemeIdArgs :
        /\ call = NoCall
        /\ call' = [op |-> "isThemeAvailableOnJetpackSite", args |-> <<themeId, siteId>>]
        /\ ret' = isThemeAvailableOnJetpackSite(state, themeId, siteId)
        /\ UNCHANGED <<env, cache>>

InitJetpack ==
    /\ state \in {[InitialState EXCEPT !.themes.queries = MkQueries(w, Undefined, sm),
                                       !.sites = sites] :
                    w \in WpcomManagers \cup {Undefined},
                    sm \in [SiteKeys -> SiteManagers \cup {Undefined}],
                    sites \in AllSites}
    /\ config = {}
    /\ cache = EmptyCache
    /\ call = NoCall
    /\ ret = Undefined

NextJetpack ==
    \/ Call_isThemeAvailableOnJetpackSite
    \/ Return

SpecJetpack == InitJetpack /\ [][NextJetpack]_vars

\* C7: isThemeAvailableOnJetpackSite is true if and only if the theme is in
\* the site's own collection, or it is in the wpcom collection and the site
\* has the Jetpack extended theme features.
C7_AvailableOnJetpack ==
    call.op = "isThemeAvailableOnJetpackSite" =>
        LET themeId == call.args[1]
            siteId == call.args[2]
            extended == /\ PropertyKey(siteId) \in DOMAIN state.sites
                        /\ state.sites[PropertyKey(siteId)].extended = B(TRUE)
        IN  Truthy(ret) <=> \/ Holds(state, PropertyKey(siteId), themeId)
                            \/ Holds(state, "wpcom", themeId) /\ extended

\* A wpcom theme, not on the site, on a site without the extended features.
C7_Witness ==
    /\ call.op = "isThemeAvailableOnJetpackSite"
    /\ Holds(state, "wpcom", call.args[1])
    /\ ~Holds(state, PropertyKey(call.args[2]), call.args[1])
    /\ PropertyKey(call.args[2]) \in DOMAIN state.sites
    /\ state.sites[PropertyKey(call.args[2])].jetpack = B(TRUE)
    /\ state.sites[PropertyKey(call.args[2])].extended = B(FALSE)
    /\ ~Truthy(ret)

(***************************************************************************)
(* Specification of the active theme, over theme ids built of the parts    *)
(* "a" and "-wpcom", so that the suffix also occurs inside an id.          *)
(***************************************************************************)
IdParts == {"a", "-wpcom"}

RECURSIVE IdsOfParts(_)
IdsOfParts(n) ==
    IF n = 0 THEN {""}
    ELSE {id \o part : id \in IdsOfParts(n - 1), part \in IdParts}

\* The ids of 1 to n parts.
IdsUpTo(n) == UNION {IdsOfParts(k) : k \in 1..n}

\* The ids stored as active theme: a theme id, with or without the suffix.
StoredIds == IdsUpTo(MaxIdParts) \cup {id \o "-wpcom" : id \in IdsUpTo(MaxIdParts)}

ActiveIdArgs == {S(id) : id \in IdsUpTo(MaxIdParts)} \cup {Null, Undefined, S("")}

Call_getActiveTheme ==
    \E siteId \in SiteIdArgs :
        /\ call = NoCall
        /\ call' = [op |-> "getActiveTheme", args |-> <<siteId>>]
        /\ ret' = getActiveTheme(state, siteId)
        /\ UNCHANGED <<env, cache>>

Call_isThemeActive ==
    \E siteId \in SiteIdArgs, themeId \in ActiveIdArgs :
        /\ call = NoCall
        /\ call' = [op |-> "isThemeActive", args |-> <<themeId, siteId>>]
        /\ ret' = isThemeActive(state, themeId, siteId)
        /\ UNCHANGED <<env, cache>>

InitActive ==
    /\ state \in {[InitialState EXCEPT !.themes.activeThemes = Compact(c)] :
                    c \in [SiteKeys -> {Undefined} \cup {S(id) : id \in StoredIds}]}
    /\ config = {}
    /\ cache = EmptyCache
    /\ call = NoCall
    /\ ret = Undefined

NextActive ==
    \/ Call_getActiveTheme
    \/ Call_isThemeActive
    \/ Return

SpecActive == InitActive /\ [][NextActive]_vars

\* C2: for every theme id and every site, when the active theme stored for the
\* site is id + "-wpcom", isThemeActive(state, id, siteId) is true.
C2_SuffixStripped ==
    call.op = "isThemeActive" =>
        LET themeId == call.args[1]
            siteId == call.args[2]
        IN  /\ themeId.t = "string"
            /\ PropertyKey(siteId) \in DOMAIN state.themes.activeThemes
            /\ state.themes.activeThemes[PropertyKey(siteId)] = S(themeId.v \o "-wpcom")
            => ret = B(TRUE)

(***************************************************************************)
(* Specification of the themes of a query, over every content of a site's  *)
(* collection: its items and, per query, no result set or a result set of  *)
(* at most MaxPageLen keys, with repeated and unresolved keys.             *)
(***************************************************************************)
EmptyQuery == [t |-> "object"]

\* The queries a collection has result sets for.
Queries == {EmptyQuery, [t |-> "object", page |-> N(2)]}

\* The query arguments: those, and a query no collection has a result set for.
QueryArgs == Queries \cup {[t |-> "object", search |-> S("blog")]}

\* The result sets of a collection with the given items.
ResultSets(ids) ==
    {Arr(keys) :
        keys \in UNION {[1..n -> {S(id) : id \in ids} \cup {Undefined}] : n \in 0..MaxPageLen}}

\* The collections with the given items: every choice of result sets.
QueryManagers(ids) ==
    {Manager([id \in ids |-> SiteRecord(id)], Compact(c)) :
        c \in [Queries -> {Undefined} \cup ResultSets(ids)]}

Call_getThemesForQuery ==
    \E siteId \in SiteIdArgs, query \in QueryArgs :
        /\ call = NoCall
        /\ call' = [op |-> "getThemesForQuery", args |-> <<siteId, query>>]
        /\ ret' = getThemesForQuery(state, siteId, query)
        /\ UNCHANGED <<env, cache>>

InitQuery ==
    /\ \E ids \in SUBSET ThemeIds :
          state \in {[InitialState EXCEPT !.themes.queries = Compact(c)] :
                       c \in [SiteKeys -> {Undefined} \cup QueryManagers(ids)]}
    /\ config = {}
    /\ cache = EmptyCache
    /\ call = NoCall
    /\ ret = Undefined

NextQuery ==
    \/ Call_getThemesForQuery
    \/ Return

SpecQuery == InitQuery /\ [][NextQuery]_vars

\* The result set the site's collection has for the query, as item keys.
HasResultSet(st, siteId, query) ==
    /\ PropertyKey(siteId) \in DOMAIN st.themes.queries
    /\ query \in DOMAIN st.themes.queries[PropertyKey(siteId)].queries

ResultSetOf(st, siteId, query) == st.themes.queries[PropertyKey(siteId)].queries[query].v

\* C3: getThemesForQuery returns null when the site has no collection, when
\* the collection has no items for the query, or when an item of the result
\* set is unresolved; otherwise it returns the items of the result set, all of
\* them, each once.
C3_ThemesForQuery ==
    call.op = "getThemesForQuery" =>
        LET siteId == call.args[1]
            query == call.args[2]
        IN  IF ~HasResultSet(state, siteId, query) THEN ret = Null
            ELSE LET keys == ResultSetOf(state, siteId, query)
                 IN  IF \E i \in 1..Len(keys) : keys[i] = Undefined THEN ret = Null
                     ELSE /\ ret.t = "array"
                          /\ \A i, j \in 1..Len(ret.v) : i # j => ret.v[i] # ret.v[j]
                          /\ {ret.v[i] : i \in 1..Len(ret.v)}
                               = {ItemOf(state, PropertyKey(siteId), keys[i]) : i \in 1..Len(keys)}

\* A result set with a repeated key: the result is shorter than the set.
C3_Witness ==
    /\ call.op = "getThemesForQuery"
    /\ HasResultSet(state, call.args[1], call.args[2])
    /\ ret.t = "array"
    /\ Len(ret.v) = 2
    /\ Len(ResultSetOf(state, call.args[1], call.args[2])) = 3

(***************************************************************************)
(* Specification of the URLs, over the feature flags, the sites, the wpcom *)
(* collection, the presence of the wporg and site collections and the      *)
(* active theme.                                                           *)
(***************************************************************************)
Flags == {"manage/themes/details", "manage/themes/details/jetpack"}

\* The sites, also those that cannot be managed.
UrlSites ==
    AllSites \cup {[k \in DOMAIN sites |-> [sites[k] EXCEPT !.canManage = B(FALSE)]] :
                      sites \in {a \in AllSites : \E k \in DOMAIN a : a[k].jetpack = B(TRUE)}}

Call_getThemeDetailsUrl ==
    \E siteId \in SiteIdArgs, themeId \in ThemeIdArgs :
        /\ call = NoCall
        /\ call' = [op |-> "getThemeDetailsUrl", args |-> <<themeId, siteId>>]
        /\ ret' = getThemeDetailsUrl(state, themeId, siteId)
        /\ UNCHANGED <<env, cache>>

Call_getThemeSupportUrl ==
    \E siteId \in SiteIdArgs, themeId \in ThemeIdArgs :
        /\ call = NoCall
        /\ call' = [op |-> "getThemeSupportUrl", args |-> <<themeId, siteId>>]
        /\ ret' = getThemeSupportUrl(state, themeId, siteId)
        /\ UNCHANGED <<env, cache>>

Call_getThemeHelpUrl ==
    \E siteId \in SiteIdArgs, themeId \in ThemeIdArgs :
        /\ call = NoCall
        /\ call' = [op |-> "getThemeHelpUrl", args |-> <<themeId, siteId>>]
        /\ ret' = getThemeHelpUrl(state, themeId, siteId)
        /\ UNCHANGED <<env, cache>>

Call_getThemePurchaseUrl ==
    \E siteId \in SiteIdArgs, themeId \in ThemeIdArgs :
        /\ call = NoCall
        /\ call' = [op |-> "getThemePurchaseUrl", args |-> <<themeId, siteId>>]
        /\ ret' = getThemePurchaseUrl(state, themeId, siteId)
        /\ UNCHANGED <<env, cache>>

Call_getThemeCustomizeUrl ==
    \E siteId \in SiteIdArgs, themeId \in ThemeIdArgs :
        /\ call = NoCall
        /\ call' = [op |-> "getThemeCustomizeUrl", args |-> <<themeId, siteId>>]
        /\ ret' = getThemeCustomizeUrl(state, themeId, siteId)
        /\ UNCHANGED <<env, cache>>

Call_getThemeSignupUrl ==
    \E themeId \in ThemeIdArgs :
        /\ call = NoCall
        /\ call' = [op |-> "getThemeSignupUrl", args |-> <<themeId>>]
        /\ ret' = getThemeSignupUrl(state, themeId)
        /\ UNCHANGED <<env, cache>>

Call_getThemeDemoUrl ==
    \E siteId \in SiteIdArgs, themeId \in ThemeIdArgs :
        /\ call = NoCall
        /\ call' = [op |-> "getThemeDemoUrl", args |-> <<themeId, siteId>>]
        /\ ret' = getThemeDemoUrl(state, themeId, siteId)
        /\ UNCHANGED <<env, cache>>

InitUrls ==
    /\ state \in {[InitialState EXCEPT !.themes.queries = MkQueries(w, o, sm),
                                       !.themes.activeThemes = Compact(active),
                                       !.sites = sites] :
                    w \in WpcomManagers \cup {Undefined},
                    o \in {Undefined, Manager([id \in ThemeIds |-> WporgRecord(id)], EmptyMap)},
                    sm \in [SiteKeys ->
                             {Undefined, Manager([id \in ThemeIds |-> SiteRecord(id)], EmptyMap)}],
                    active \in [SiteKeys -> {Undefined} \cup {S(id) : id \in ThemeIds}],
                    sites \in UrlSites}
    /\ config \in SUBSET Flags
    /\ cache = EmptyCache
    /\ call = NoCall
    /\ ret = Undefined

NextUrls ==
    \/ Call_getThemeDetailsUrl
    \/ Call_getThemeSupportUrl
    \/ Call_getThemeHelpUrl
    \/ Call_getThemePurchaseUrl
    \/ Call_getThemeCustomizeUrl
    \/ Call_getThemeSignupUrl
    \/ Call_getThemeDemoUrl
    \/ Call_getThemeForumUrl
    \/ Return

SpecUrls == InitUrls /\ [][NextUrls]_vars

UrlSelectors ==
    {"getThemeDetailsUrl", "getThemeSupportUrl", "getThemeHelpUrl", "getThemePurchaseUrl",
     "getThemeCustomizeUrl", "getThemeSignupUrl", "getThemeDemoUrl", "getThemeForumUrl"}

\* C6 as stated: each URL-building selector of the family returns null when
\* themeId is absent (null, undefined or empty), whatever the state and the
\* other arguments.
C6_NullWhenThemeIdAbsent ==
    call.op \in UrlSelectors /\ ~Truthy(call.args[1]) => ret = Null

\* The customizer URL of the site in the state: that of the site when the site
\* is known, '/customize' otherwise.
CustomizerUrlOf(st, siteId) ==
    IF PropertyKey(siteId) \in DOMAIN st.sites
    THEN st.sites[PropertyKey(siteId)].customizerUrl
    ELSE S("/customize")

\* C6 as amended: with themeId absent, getThemeDetailsUrl, getThemeSupportUrl,
\* getThemeHelpUrl, getThemePurchaseUrl, getThemeSignupUrl and
\* getThemeForumUrl return null whatever the state and the site id;
\* getThemeCustomizeUrl returns the customizer URL of the site unchanged, and
\* getThemeDemoUrl returns undefined.
C6_AbsentThemeId ==
    call.op \in UrlSelectors /\ ~Truthy(call.args[1]) =>
        ret = CASE call.op = "getThemeCustomizeUrl" -> CustomizerUrlOf(state, call.args[2])
                [] call.op = "getThemeDemoUrl" -> Undefined
                [] OTHER -> Null

\* getThemeCustomizeUrl without a theme id, for a known site: its customizer URL.
C6_Witness ==
    /\ call.op = "getThemeCustomizeUrl"
    /\ call.args[1] = Null
    /\ PropertyKey(call.args[2]) \in DOMAIN state.sites
    /\ ret = state.sites[PropertyKey(call.args[2])].customizerUrl
    /\ ret # Null

\* C18: getThemeCustomizeUrl returns the customizer URL of the site unchanged
\* when siteId or themeId is absent, when the theme is the active theme of the
\* site, or when the site is not a Jetpack site and the theme has no wpcom
\* record; otherwise it returns the customizer URL, '&' when that URL
\* contains '?' and '?' when it does not, and 'theme=' with themeId on a
\* Jetpack site and with the stylesheet of the wpcom record on any other.
C18_CustomizeUrl ==
    call.op = "getThemeCustomizeUrl" =>
        LET themeId == call.args[1]
            siteId == call.args[2]
            url == CustomizerUrlOf(state, siteId)
            jetpack == /\ PropertyKey(siteId) \in DOMAIN state.sites
                       /\ state.sites[PropertyKey(siteId)].jetpack = B(TRUE)
            active == /\ PropertyKey(siteId) \in DOMAIN state.themes.activeThemes
                      /\ state.themes.activeThemes[PropertyKey(siteId)]
                            \in {themeId, S(PropertyKey(themeId) \o "-wpcom")}
            separator == IF \E i \in 1..Len(url.v) : SubSeq(url.v, i, i) = "?"
                         THEN "&" ELSE "?"
        IN  IF \/ ~Truthy(siteId)
               \/ ~Truthy(themeId)
               \/ active
               \/ ~jetpack /\ ~Holds(state, "wpcom", themeId)
            THEN ret = url
            ELSE ret = S(url.v \o separator \o "theme="
                         \o (IF jetpack THEN themeId.v
                             ELSE ItemOf(state, "wpcom", themeId).stylesheet.v))

\* A theme of the wpcom directory that is not the active one, on a Jetpack
\* site, whose customizer URL has a query string.
C18_Witness ==
    /\ call.op = "getThemeCustomizeUrl"
    /\ Truthy(call.args[1])
    /\ Truthy(isJetpackSite(state, call.args[2]))
    /\ ~Truthy(isThemeActive(state, call.args[1], call.args[2]))
    /\ ret = S(CustomizerUrlOf(state, call.args[2]).v \o "&theme=" \o call.args[1].v)

\* The segments of a path: the strings between its '/'.
RECURSIVE Segments(_)
Segments(path) ==
    IF \A i \in 1..Len(path) : SubSeq(path, i, i) # "/" THEN <<path>>
    ELSE LET i == CHOOSE j \in 1..Len(path) :
                      /\ SubSeq(path, j, j) = "/"
                      /\ \A k \in 1..(j - 1) : SubSeq(path, k, k) # "/"
         IN  <<SubSeq(path, 1, i - 1)>> \o Segments(SubSeq(path, i + 1, Len(path)))

\* The URL has the theme id and the slug as two segments.
DistinctSegments(url, themeId, slug) ==
    LET segments == Segments(url)
    IN  \E i, j \in 1..Len(segments) :
            /\ i # j
            /\ segments[i] = themeId
            /\ segments[j] = slug

\* C21: in every URL that getThemeDetailsUrl, getThemeSupportUrl and
\* getThemeHelpUrl build for a theme id together with a site id, with the
\* flag 'manage/themes/details' enabled (new showcase) and disabled (old
\* showcase) alike, the theme id and the slug of the site are two distinct
\* path segments separated by '/': the slug is never concatenated directly
\* to the theme id.  The wp-admin URL that getThemeDetailsUrl gives for a
\* Jetpack site is not a showcase URL and is left out.
C21_SlugSegment ==
    /\ call.op \in {"getThemeDetailsUrl", "getThemeSupportUrl", "getThemeHelpUrl"}
    /\ Truthy(call.args[1])
    /\ Truthy(call.args[2])
    /\ ret # Null
    /\ ~(call.op = "getThemeDetailsUrl" /\ Truthy(isJetpackSite(state, call.args[2])))
    => DistinctSegments(ret.v, call.args[1].v,
                        PropertyKey(getSiteSlug(state, call.args[2])))

\* C21 for getThemeDetailsUrl and getThemeHelpUrl alone: their URLs end in
\* the theme id (new showcase of the help URL: and 'support'), '/', the slug.
C21_DetailsAndHelp ==
    /\ call.op \in {"getThemeDetailsUrl", "getThemeHelpUrl"}
    /\ Truthy(call.args[1])
    /\ Truthy(call.args[2])
    /\ ~(call.op = "getThemeDetailsUrl" /\ Truthy(isJetpackSite(state, call.args[2])))
    => DistinctSegments(ret.v, call.args[1].v,
                        PropertyKey(getSiteSlug(state, call.args[2])))

\* The setup URL of the new showcase, with the slug as its last segment.
C21_NewSupport ==
    /\ call.op = "getThemeSupportUrl"
    /\ "manage/themes/details" \in config
    /\ Truthy(call.args[2])
    /\ ret # Null
    => DistinctSegments(ret.v, call.args[1].v,
                        PropertyKey(getSiteSlug(state, call.args[2])))

\* The support URL of the old showcase: the slug, then the theme id with no
\* '/' between them.
C21_OldSupport ==
    /\ call.op = "getThemeSupportUrl"
    /\ "manage/themes/details" \notin config
    /\ Truthy(call.args[2])
    /\ ret # Null
    => ret = S(oldShowcaseUrl \o "/" \o PropertyKey(getSiteSlug(state, call.args[2]))
               \o call.args[1].v \o "/support")

(***************************************************************************)
(* Specification of the auto-loading-homepage warning: the single slot     *)
(* state.themes.themeHasAutoLoadingHomepageWarning, from every content of  *)
(* the slot, with the changes of the slot and the calls of its selectors.  *)
(***************************************************************************)
Warning(themeId, show, accepted) ==
    [t |-> "object", themeId |-> S(themeId), show |-> B(show), accepted |-> B(accepted)]

\* The warning is shown for the theme about to be activated: the slot is
\* replaced, whatever theme it held.
ShowAutoLoadingHomepageWarning ==
    \E themeId \in ThemeIds :
        /\ call = NoCall
        /\ state' = [state EXCEPT !.themes.themeHasAutoLoadingHomepageWarning =
                                      Warning(themeId, TRUE, FALSE)]
        /\ UNCHANGED <<config, cache, call, ret>>

\* The user accepts the warning of the theme.
AcceptAutoLoadingHomepageWarning ==
    \E themeId \in ThemeIds :
        /\ call = NoCall
        /\ state' = [state EXCEPT !.themes.themeHasAutoLoadingHomepageWarning =
                                      Warning(themeId, FALSE, TRUE)]
        /\ UNCHANGED <<config, cache, call, ret>>

\* The user dismisses the warning, or the activation ends.
HideAutoLoadingHomepageWarning ==
    /\ call = NoCall
    /\ state.themes.themeHasAutoLoadingHomepageWarning # Null
    /\ state' = [state EXCEPT !.themes.themeHasAutoLoadingHomepageWarning = Null]
    /\ UNCHANGED <<config, cache, call, ret>>

Call_getPreActivateThemeId ==
    /\ call = NoCall
    /\ call' = [op |-> "getPreActivateThemeId", args |-> <<>>]
    /\ ret' = getPreActivateThemeId(state)
    /\ UNCHANGED <<env, cache>>

Call_shouldShowHomepageWarning ==
    \E themeId \in ThemeIdArgs :
        /\ call = NoCall
        /\ call' = [op |-> "shouldShowHomepageWarning", args |-> <<themeId>>]
        /\ ret' = shouldShowHomepageWarning(state, themeId)
        /\ UNCHANGED <<env, cache>>

Call_hasAutoLoadingHomepageModalAccepted ==
    \E themeId \in ThemeIdArgs :
        /\ call = NoCall
        /\ call' = [op |-> "hasAutoLoadingHomepageModalAccepted", args |-> <<themeId>>]
        /\ ret' = hasAutoLoadingHomepageModalAccepted(state, themeId)
        /\ UNCHANGED <<env, cache>>

InitWarning ==
    /\ state \in {[InitialState EXCEPT !.themes.themeHasAutoLoadingHomepageWarning = w] :
                    w \in {Null} \cup {Warning(themeId, show, accepted) :
                                          themeId \in ThemeIds,
                                          show \in BOOLEAN, accepted \in BOOLEAN}}
    /\ config = {}
    /\ cache = EmptyCache
    /\ call = NoCall
    /\ ret = Undefined

NextWarning ==
    \/ ShowAutoLoadingHomepageWarning
    \/ AcceptAutoLoadingHomepageWarning
    \/ HideAutoLoadingHomepageWarning
    \/ Call_getPreActivateThemeId
    \/ Call_shouldShowHomepageWarning
    \/ Call_hasAutoLoadingHomepageModalAccepted
    \/ Return

SpecWarning == InitWarning /\ [][NextWarning]_vars

\* The slot of the state tree.
Slot(st) == st.themes.themeHasAutoLoadingHomepageWarning

\* C9: shouldShowHomepageWarning is truthy only if the stored pending themeId
\* equals themeId and `show` is set; hasAutoLoadingHomepageModalAccepted is
\* truthy only if the stored pending themeId equals themeId and `accepted` is
\* set; with the record missing both are falsy.
C9_WarningGate ==
    /\ call.op = "shouldShowHomepageWarning" /\ Truthy(ret) =>
          /\ Slot(state) # Null
          /\ Slot(state).themeId = call.args[1]
          /\ Slot(state).show = B(TRUE)
    /\ call.op = "hasAutoLoadingHomepageModalAccepted" /\ Truthy(ret) =>
          /\ Slot(state) # Null
          /\ Slot(state).themeId = call.args[1]
          /\ Slot(state).accepted = B(TRUE)
    /\ /\ call.op \in {"shouldShowHomepageWarning", "hasAutoLoadingHomepageModalAccepted"}
       /\ Slot(state) = Null
       => ~Truthy(ret)

C9_Witness ==
    /\ call.op = "shouldShowHomepageWarning"
    /\ Truthy(ret)
    /\ Slot(state).themeId = call.args[1]

\* In the state st, at most one theme id makes either selector truthy, and it
\* is the id getPreActivateThemeId returns.
SingleSlot(st) ==
    \A themeId \in ThemeIdArgs :
        \/ Truthy(shouldShowHomepageWarning(st, themeId))
        \/ Truthy(hasAutoLoadingHomepageModalAccepted(st, themeId))
        => themeId = getPreActivateThemeId(st)

\* C10: the gate tracks a single theme at a time: in every state at most one
\* theme id makes shouldShowHomepageWarning truthy and at most one makes
\* hasAutoLoadingHomepageModalAccepted truthy, that id is the one
\* getPreActivateThemeId returns, and after the slot is replaced by a
\* different theme id both selectors are falsy for the previous id.
C10_SingleSlot ==
    /\ [](SingleSlot(state))
    /\ [][getPreActivateThemeId(state') # getPreActivateThemeId(state) =>
            /\ ~Truthy(shouldShowHomepageWarning(state', getPreActivateThemeId(state)))
            /\ ~Truthy(hasAutoLoadingHomepageModalAccepted(state', getPreActivateThemeId(state)))
         ]_vars

\* The selector was truthy for the theme of the slot, the one
\* getPreActivateThemeId returns, and for no other.
C10_Witness ==
    /\ call.op = "shouldShowHomepageWarning"
    /\ Truthy(ret)
    /\ call.args[1] = getPreActivateThemeId(state)
    /\ \A themeId \in ThemeIdArgs \ {call.args[1]} :
          ~Truthy(shouldShowHomepageWarning(state, themeId))


(***************************************************************************)
(* Specification of the memoized selectors: their calls interleaved with   *)
(* the changes of the slices they read.  A changed slice is a new object,  *)
(* an unchanged one is the same object.                                    *)
(***************************************************************************)
\* The collections of the site: every theme an item, one theme found for the
\* first page of the empty query.
MemoManagers ==
    {Manager([id \in ThemeIds |-> SiteRecord(id)],
             [q \in {EmptyQuery} |-> Arr(<<S(found)>>)]) : found \in ThemeIds}

MemoQueries == {EmptyMap} \cup {[k \in SiteKeys |-> manager] : manager \in MemoManagers}

\* The theme that is looked up and that is recommended or not.
MemoTheme == "theme" \o ToString(1)

MemoRecommended == {Arr(<<>>), Arr(<<WpcomRecord(MemoTheme, FALSE)>>)}

MemoRequests ==
    {EmptyMap}
    \cup {[k \in {getSerializedThemesQuery(EmptyQuery, N(siteId))} |-> B(TRUE)] :
            siteId \in SiteIds}

\* The themes of queries have been received.
ReceiveThemes ==
    \E queries \in MemoQueries \ {state.themes.queries} :
        /\ call = NoCall
        /\ state' = [state EXCEPT !.themes.queries = queries]
        /\ UNCHANGED <<config, cache, call, ret>>

\* A request of themes has started or ended.
RequestThemes ==
    \E queryRequests \in MemoRequests \ {state.themes.queryRequests} :
        /\ call = NoCall
        /\ state' = [state EXCEPT !.themes.queryRequests = queryRequests]
        /\ UNCHANGED <<config, cache, call, ret>>

\* The recommended themes have been received.
ReceiveRecommendedThemes ==
    \E themes \in MemoRecommended \ {state.themes.recommendedThemes.themes} :
        /\ call = NoCall
        /\ state' = [state EXCEPT !.themes.recommendedThemes.themes = themes]
        /\ UNCHANGED <<config, cache, call, ret>>

Call_Memoized_getTheme ==
    \E siteId \in {N(i) : i \in SiteIds}, themeId \in {S(MemoTheme)} :
        /\ call = NoCall
        /\ call' = [op |-> "Memoized_getTheme", args |-> <<siteId, themeId>>]
        /\ ret' = Memoized_getTheme(cache, state, siteId, themeId).ret
        /\ cache' = Memoized_getTheme(cache, state, siteId, themeId).cache
        /\ UNCHANGED env

Call_Memoized_getThemesForQuery ==
    \E siteId \in {N(i) : i \in SiteIds}, query \in Queries :
        /\ call = NoCall
        /\ call' = [op |-> "Memoized_getThemesForQuery", args |-> <<siteId, query>>]
        /\ ret' = Memoized_getThemesForQuery(cache, state, siteId, query).ret
        /\ cache' = Memoized_getThemesForQuery(cache, state, siteId, query).cache
        /\ UNCHANGED env

Call_Memoized_getThemesForQueryIgnoringPage ==
    \E siteId \in {N(i) : i \in SiteIds}, query \in Queries :
        /\ call = NoCall
        /\ call' = [op |-> "Memoized_getThemesForQueryIgnoringPage",
                    args |-> <<siteId, query>>]
        /\ ret' = Memoized_getThemesForQueryIgnoringPage(cache, state, siteId, query).ret
        /\ cache' = Memoized_getThemesForQueryIgnoringPage(cache, state, siteId, query).cache
        /\ UNCHANGED env

Call_Memoized_isRequestingThemesForQueryIgnoringPage ==
    \E siteId \in {N(i) : i \in SiteIds}, query \in Queries :
        /\ call = NoCall
        /\ call' = [op |-> "Memoized_isRequestingThemesForQueryIgnoringPage",
                    args |-> <<siteId, query>>]
        /\ ret' = Memoized_isRequestingThemesForQueryIgnoringPage(cache, state, siteId, query).ret
        /\ cache' = Memoized_isRequestingThemesForQueryIgnoringPage(cache, state, siteId, query).cache
        /\ UNCHANGED env

InitMemo ==
    /\ state \in {[InitialState EXCEPT !.themes.queries = queries,
                                       !.themes.queryRequests = queryRequests,
                                       !.themes.recommendedThemes.themes = themes] :
                    queries \in MemoQueries, queryRequests \in MemoRequests,
                    themes \in MemoRecommended}
    /\ config = {}
    /\ cache = EmptyCache
    /\ call = NoCall
    /\ ret = Undefined

NextMemo ==
    \/ ReceiveThemes
    \/ RequestThemes
    \/ ReceiveRecommendedThemes
    \/ Call_Memoized_getTheme
    \/ Call_Memoized_getThemesForQuery
    \/ Call_Memoized_getThemesForQueryIgnoringPage
    \/ Call_Memoized_isRequestingThemesForQueryIgnoringPage
    \/ Return

SpecMemo == InitMemo /\ [][NextMemo]_vars

\* C11: whatever the changes of the state and the calls made before, a
\* memoized selector returns what its computation returns on the state it is
\* called with.
C11_MemoizedAsComputed ==
    /\ call.op = "Memoized_getTheme" =>
          ret = getTheme(state, call.args[1], call.args[2])
    /\ call.op = "Memoized_getThemesForQuery" =>
          ret = getThemesForQuery(state, call.args[1], call.args[2])
    /\ call.op = "Memoized_getThemesForQueryIgnoringPage" =>
          ret = getThemesForQueryIgnoringPage(state, call.args[1], call.args[2])
    /\ call.op = "Memoized_isRequestingThemesForQueryIgnoringPage" =>
          ret = isRequestingThemesForQueryIgnoringPage(state, call.args[1], call.args[2])


\* C12: getThemesForQueryIgnoringPage strips the recommended themes exactly
\* when the query sets none of search, filter and tier: the result of such a
\* query holds no theme whose id is that of a recommended theme, the result
\* of a query that sets one of them holds every theme received for the
\* query, and no result holds a theme twice.
C12_RecommendedStripped ==
    (call.op = "Memoized_getThemesForQueryIgnoringPage" /\ ret.t = "array") =>
        LET query == call.args[2]
            recommended == state.themes.recommendedThemes.themes.v
            manager == Prop(state.themes.queries, call.args[1])
        IN  /\ \A i, j \in 1..Len(ret.v) : ret.v[i] = ret.v[j] => i = j
            /\ IF \A field \in {"search", "filter", "tier"} :
                     ~Truthy(Get(query, field, Undefined))
               THEN \A i \in 1..Len(ret.v), j \in 1..Len(recommended) :
                       ret.v[i].id # recommended[j].id
               ELSE /\ manager # Undefined
                    /\ LET received == getItemsIgnoringPage(manager, query)
                       IN  /\ received # Null
                           /\ \A i \in 1..Len(received.v) : Includes(ret.v, received.v[i])


(***************************************************************************)
(* Specification of the page-ignoring selectors: their calls interleaved   *)
(* with the changes of the collections, of the recommended themes and of   *)
(* the requests, which are requests of this site or of another, of this    *)
(* query or of another, of the first page or of the second.                *)
(***************************************************************************)
PageRequests ==
    {EmptyMap}
    \cup {[k \in {getSerializedThemesQuery(query, siteId)} |-> B(isRequesting)] :
            query \in JsonQueries, siteId \in {N(i) : i \in SiteIds \cup {2}},
            isRequesting \in BOOLEAN}

InitIgnoringPage ==
    /\ state \in {[InitialState EXCEPT !.themes.queries = queries,
                                       !.themes.queryRequests = queryRequests] :
                    queries \in MemoQueries, queryRequests \in PageRequests}
    /\ config = {}
    /\ cache = EmptyCache
    /\ call = NoCall
    /\ ret = Undefined

NextIgnoringPage ==
    \/ ReceiveThemes
    \/ RequestThemes
    \/ ReceiveRecommendedThemes
    \/ Call_Memoized_getThemesForQueryIgnoringPage
    \/ Call_Memoized_isRequestingThemesForQueryIgnoringPage
    \/ Return

SpecIgnoringPage == InitIgnoringPage /\ [][NextIgnoringPage]_vars

\* C13: two queries that differ only in their page get equal results from
\* getThemesForQueryIgnoringPage and from isRequestingThemesForQueryIgnoringPage,
\* in whichever order they are asked; and the latter returns true exactly
\* when a request in progress was made for the same site and for a query
\* whose fields other than the page are those of the normalized query.
C13_PageIgnored ==
    /\ \A siteId \in {N(i) : i \in SiteIds}, q1 \in Queries, q2 \in Queries :
          Omit(q1, "page") = Omit(q2, "page") =>
             LET themes1 == Memoized_getThemesForQueryIgnoringPage(cache, state, siteId, q1)
                 themes2 == Memoized_getThemesForQueryIgnoringPage(themes1.cache, state, siteId, q2)
                 requesting1 == Memoized_isRequestingThemesForQueryIgnoringPage(cache, state, siteId, q1)
                 requesting2 == Memoized_isRequestingThemesForQueryIgnoringPage(requesting1.cache, state, siteId, q2)
             IN  /\ themes1.ret = themes2.ret
                 /\ requesting1.ret = requesting2.ret
    /\ call.op = "Memoized_isRequestingThemesForQueryIgnoringPage" =>
          LET siteId == call.args[1]
              query == getNormalizedThemesQuery(call.args[2])
          IN  ret = B(\E requested \in JsonQueries :
                        /\ Omit(requested, "page") = Omit(query, "page")
                        /\ Truthy(Prop(state.themes.queryRequests,
                                       S(getSerializedThemesQuery(requested, siteId)))))

\* The first page is asked about while the second is being requested.
C13_Witness ==
    /\ call.op = "Memoized_isRequestingThemesForQueryIgnoringPage"
    /\ call.args[2] = EmptyQuery
    /\ ret = B(TRUE)
    /\ \E k \in DOMAIN state.themes.queryRequests :
          getDeserializedThemesQueryDetails(k).query = [t |-> "object", page |-> N(2)]


(***************************************************************************)
(* Specification of the installation flags, over every kind of site, every *)
(* content of the site's collection and every set of installations in      *)
(* progress, under a theme id or under a suffixed one.                     *)
(***************************************************************************)
\* state.themes.themeInstalls of a site: the ids being installed.
InstallMaps ==
    {[k \in installing |-> B(TRUE)] :
        installing \in SUBSET (ThemeIds \cup {id \o "-wpcom" : id \in ThemeIds})}

Call_getSuffixedThemeId ==
    \E siteId \in SiteIdArgs, themeId \in ThemeIdArgs :
        /\ call = NoCall
        /\ call' = [op |-> "getSuffixedThemeId", args |-> <<themeId, siteId>>]
        /\ ret' = getSuffixedThemeId(state, themeId, siteId)
        /\ UNCHANGED <<env, cache>>

Call_isInstallingTheme ==
    \E siteId \in SiteIdArgs, themeId \in ThemeIdArgs :
        /\ call = NoCall
        /\ call' = [op |-> "isInstallingTheme", args |-> <<themeId, siteId>>]
        /\ ret' = isInstallingTheme(state, themeId, siteId)
        /\ UNCHANGED <<env, cache>>

InitInstall ==
    /\ state \in {[InitialState EXCEPT !.sites = sites,
                                       !.themes.queries = Compact(managers),
                                       !.themes.themeInstalls = Compact(installs)] :
                    sites \in AllSites,
                    managers \in [SiteKeys -> {Undefined} \cup SiteManagers],
                    installs \in [SiteKeys -> {Undefined} \cup InstallMaps]}
    /\ config = {}
    /\ cache = EmptyCache
    /\ call = NoCall
    /\ ret = Undefined

NextInstall ==
    \/ Call_getSuffixedThemeId
    \/ Call_isInstallingTheme
    \/ Return

SpecInstall == InitInstall /\ [][NextInstall]_vars

\* An installation is in progress on the site under the key.
Installing(st, siteId, key) ==
    /\ PropertyKey(siteId) \in DOMAIN st.themes.themeInstalls
    /\ key \in DOMAIN st.themes.themeInstalls[PropertyKey(siteId)]
    /\ st.themes.themeInstalls[PropertyKey(siteId)][key] = B(TRUE)

\* C14: isInstallingTheme reads the installation flag under themeId + "-wpcom"
\* when a site id is given, the site is a Jetpack site and the theme is not in
\* the site's collection, and under themeId in every other case; it returns
\* false when there is no flag under that key.
C14_InstallKey ==
    call.op = "isInstallingTheme" =>
        LET themeId == call.args[1]
            siteId == call.args[2]
            suffixed == /\ Truthy(siteId)
                        /\ PropertyKey(siteId) \in DOMAIN state.sites
                        /\ state.sites[PropertyKey(siteId)].jetpack = B(TRUE)
                        /\ ~Holds(state, PropertyKey(siteId), themeId)
            key == IF suffixed THEN PropertyKey(themeId) \o "-wpcom" ELSE PropertyKey(themeId)
        IN  ret = B(Installing(state, siteId, key))

\* The suffixed id is being installed and the bare one is not.
C14_Witness ==
    /\ call.op = "isInstallingTheme"
    /\ call.args[1].t = "string"
    /\ Truthy(isJetpackSite(state, call.args[2]))
    /\ Installing(state, call.args[2], call.args[1].v \o "-wpcom")
    /\ ~Installing(state, call.args[2], call.args[1].v)
    /\ ret = B(TRUE)


(***************************************************************************)
(* Specification of the selectors on missing data: no wpcom and no wporg  *)
(* collection, the collection of the site absent or present, the result   *)
(* set of the query absent, empty or with unresolved entries, the active  *)
(* theme absent or present, no installation and no request.               *)
(***************************************************************************)
\* The collections of a site: a theme or none as item, and for the empty
\* query no result set or one with unresolved entries.
MissingManagers ==
    {Manager([id \in ids |-> SiteRecord(id)], EmptyMap) : ids \in {{}, {MemoTheme}}}
    \cup {Manager([id \in {MemoTheme} |-> SiteRecord(id)], [q \in {EmptyQuery} |-> Arr(keys)]) :
            keys \in {<<>>, <<Undefined>>, <<S(MemoTheme), Undefined>>,
                      <<Undefined, S(MemoTheme)>>}}

InitMissing ==
    /\ state \in {[InitialState EXCEPT !.sites = sites,
                                       !.themes.queries = Compact(managers),
                                       !.themes.activeThemes = Compact(active),
                                       !.themes.recommendedThemes.themes = themes] :
                    sites \in AllSites,
                    managers \in [SiteKeys -> {Undefined} \cup MissingManagers],
                    active \in [SiteKeys -> {Undefined, S(MemoTheme \o "-wpcom")}],
                    themes \in MemoRecommended}
    /\ config = {}
    /\ cache = EmptyCache
    /\ call = NoCall
    /\ ret = Undefined

NextMissing ==
    \/ Call_getTheme
    \/ Call_getCanonicalTheme
    \/ Call_getThemesForQuery
    \/ Call_Memoized_getThemesForQueryIgnoringPage
    \/ Call_Memoized_isRequestingThemesForQueryIgnoringPage
    \/ Call_getActiveTheme
    \/ Call_isThemeActive
    \/ Call_getSuffixedThemeId
    \/ Call_isInstallingTheme
    \/ Call_isThemePurchased
    \/ Call_isPremiumThemeAvailable
    \/ Call_getPremiumThemePrice
    \/ Call_isThemeAvailableOnJetpackSite
    \/ Call_getThemeCustomizeUrl
    \/ Call_getThemeDemoUrl
    \/ Call_getThemeForumUrl
    \/ Return

SpecMissing == InitMissing /\ [][NextMissing]_vars

Amounts == {0, 5, 50, 1099}

LineItems ==
    {[t |-> "object", label |-> S("item"),
      amount |-> [t |-> "object", currency |-> S(currency), value |-> N(value)]] :
        currency \in {"USD", "EUR"}, value \in Amounts}

Call_formatValueForCurrency ==
    \E currency \in {S("USD"), S("EUR"), S("usd"), Undefined},
       value \in {a + b : a \in Amounts, b \in Amounts} :
        /\ call = NoCall
        /\ call' = [op |-> "formatValueForCurrency", args |-> <<currency, N(value)>>]
        /\ ret' = formatValueForCurrency(currency, N(value))
        /\ UNCHANGED <<env, cache>>

Call_getTotal ==
    \E items \in UNION {[1..n -> LineItems] : n \in 0..MaxItems} :
        /\ call = NoCall
        /\ call' = [op |-> "getTotal", args |-> <<items>>]
        /\ ret' = getTotal(items)
        /\ UNCHANGED <<env, cache>>

InitTotal ==
    /\ state = InitialState
    /\ config = {}
    /\ cache = EmptyCache
    /\ call = NoCall
    /\ ret = Undefined

NextTotal ==
    \/ Call_formatValueForCurrency
    \/ Call_getTotal
    \/ Return

SpecTotal == InitTotal /\ [][NextTotal]_vars

\* C16: formatValueForCurrency throws for every currency other than 'USD' and
\* never for 'USD'; getTotal formats the sum of the items in the currency of
\* the last item, 'USD' for an empty list, and throws exactly when the list is
\* not empty and the currency of its last item is not 'USD'.
C16_TotalThrows ==
    /\ call.op = "formatValueForCurrency" =>
          (ret.t = "throw" <=> call.args[1] # S("USD"))
    /\ call.op = "getTotal" =>
          LET items == call.args[1]
              currency == IF items = <<>> THEN S("USD") ELSE items[Len(items)].amount.currency
          IN  /\ ret.t = "throw" <=> (items # <<>> /\ currency # S("USD"))
              /\ ret.t # "throw" =>
                    /\ ret.amount.currency = currency
                    /\ ret.amount.value = N(LineItemTotal(items))
                    /\ ret.amount.displayValue = formatValueForCurrency(currency, ret.amount.value)

\* A list that starts in dollars and ends in euros has no total.
C16_Witness ==
    /\ call.op = "getTotal"
    /\ Len(call.args[1]) > 1
    /\ call.args[1][1].amount.currency = S("USD")
    /\ call.args[1][Len(call.args[1])].amount.currency = S("EUR")
    /\ ret.t = "throw"


(***************************************************************************)
(* Specification of the last page of a query, over every kind of site and  *)
(* collections that know or do not know how many themes the empty query    *)
(* found: none, one page of them, or more.                                 *)
(***************************************************************************)
PagedManagers ==
    {[t |-> "object", items |-> EmptyMap, queries |-> EmptyMap, found |-> found] :
        found \in {EmptyMap} \cup [{EmptyQuery} -> {N(0), N(1), N(21), N(45)}]}

\* The queries asked about: pages of the empty query, and another query.
PageQueries ==
    {EmptyQuery, [t |-> "object", search |-> S("blog")]}
    \cup {[t |-> "object", page |-> N(page)] : page \in 0..3}

Call_getThemesLastPageForQuery ==
    \E siteId \in SiteIdArgs, query \in PageQueries :
        /\ call = NoCall
        /\ call' = [op |-> "getThemesLastPageForQuery", args |-> <<siteId, query>>]
        /\ ret' = getThemesLastPageForQuery(state, siteId, query)
        /\ UNCHANGED <<env, cache>>

Call_isThemesLastPageForQuery ==
    \E siteId \in SiteIdArgs, query \in PageQueries \cup {Undefined} :
        /\ call = NoCall
        /\ call' = [op |-> "isThemesLastPageForQuery", args |-> <<siteId, query>>]
        /\ ret' = isThemesLastPageForQuery(state, siteId, query)
        /\ UNCHANGED <<env, cache>>

InitLastPage ==
    /\ state \in {[InitialState EXCEPT !.sites = sites,
                                       !.themes.queries = Compact(managers)] :
                    sites \in AllSites,
                    managers \in [SiteKeys -> {Undefined} \cup PagedManagers]}
    /\ config = {}
    /\ cache = EmptyCache
    /\ call = NoCall
    /\ ret = Undefined

NextLastPage ==
    \/ Call_getThemesLastPageForQuery
    \/ Call_isThemesLastPageForQuery
    \/ Return

SpecLastPage == InitLastPage /\ [][NextLastPage]_vars

\* The last page of the query on the site: null when the site has no
\* collection or the collection does not know the number of pages, 1 on a
\* Jetpack site, otherwise the number of pages and not less than 1.
LastPageOf(st, siteId, query) ==
    IF PropertyKey(siteId) \notin DOMAIN st.themes.queries THEN Null
    ELSE LET pages == getNumberOfPages(st.themes.queries[PropertyKey(siteId)], query)
         IN  IF pages = Null THEN Null
             ELSE IF /\ PropertyKey(siteId) \in DOMAIN st.sites
                     /\ st.sites[PropertyKey(siteId)].jetpack = B(TRUE)
             THEN N(1)
             ELSE N(IF pages.v >= 1 THEN pages.v ELSE 1)

\* C17: getThemesLastPageForQuery returns null when the site has no collection
\* or the number of pages is not known, also on a Jetpack site; otherwise 1
\* on a Jetpack site and the greater of the number of pages and 1 on any
\* other; a result that is not null is at least 1.  isThemesLastPageForQuery
\* is null in the same cases, and otherwise true exactly when the last page
\* is the page of the query, the default page when the query has no page or
\* page 0.
C17_LastPage ==
    /\ call.op = "getThemesLastPageForQuery" =>
          /\ ret = LastPageOf(state, call.args[1], call.args[2])
          /\ ret # Null => ret.v >= 1
    /\ call.op = "isThemesLastPageForQuery" =>
          LET query == IF call.args[2] = Undefined THEN EmptyQuery ELSE call.args[2]
              lastPage == LastPageOf(state, call.args[1], query)
              page == IF "page" \in DOMAIN query /\ query.page.v # 0
                      THEN query.page.v
                      ELSE DEFAULT_THEME_QUERY.page.v
          IN  IF lastPage = Null THEN ret = Null
              ELSE ret = B(lastPage.v = page)

\* Three pages are known of on a Jetpack site, whose last page is the first.
C17_Witness ==
    /\ call.op = "getThemesLastPageForQuery"
    /\ Truthy(isJetpackSite(state, call.args[1]))
    /\ PropertyKey(call.args[1]) \in DOMAIN state.themes.queries
    /\ getNumberOfPages(state.themes.queries[PropertyKey(call.args[1])], call.args[2]) = N(3)
    /\ ret = N(1)


(***************************************************************************)
(* Specification of the purchase and upgrade URLs, over every content of   *)
(* the wpcom collection, every kind of site and every set of features.     *)
(***************************************************************************)
Call_getJetpackUpgradeUrlIfPremiumTheme ==
    \E siteId \in SiteIdArgs, themeId \in ThemeIdArgs :
        /\ call = NoCall
        /\ call' = [op |-> "getJetpackUpgradeUrlIfPremiumTheme", args |-> <<themeId, siteId>>]
        /\ ret' = getJetpackUpgradeUrlIfPremiumTheme(state, themeId, siteId)
        /\ UNCHANGED <<env, cache>>

InitUpgrade ==
    /\ state \in {[InitialState EXCEPT !.themes.queries = Compact([wpcom |-> w]),
                                       !.sites = sites,
                                       !.features = features] :
                    w \in WpcomManagers \cup {Undefined},
                    sites \in AllSites,
                    features \in AllFeatures}
    /\ config = {}
    /\ cache = EmptyCache
    /\ call = NoCall
    /\ ret = Undefined

NextUpgrade ==
    \/ Call_getThemePurchaseUrl
    \/ Call_getJetpackUpgradeUrlIfPremiumTheme
    \/ Return

SpecUpgrade == InitUpgrade /\ [][NextUpgrade]_vars

\* C20: for no theme and no site are the purchase URL and the Jetpack upgrade
\* URL both non-null; the purchase URL is non-null only for a premium theme
\* on a site that is not a Jetpack site, the upgrade URL only for a premium
\* theme on a Jetpack site without the unlimited-premium-themes feature, and
\* both are null for a theme that is not premium.
C20_ExclusiveUrls ==
    /\ \A siteId \in SiteIdArgs, themeId \in ThemeIdArgs :
          \/ getThemePurchaseUrl(state, themeId, siteId) = Null
          \/ getJetpackUpgradeUrlIfPremiumTheme(state, themeId, siteId) = Null
    /\ call.op \in {"getThemePurchaseUrl", "getJetpackUpgradeUrlIfPremiumTheme"} =>
          LET themeId == call.args[1]
              siteId == call.args[2]
              premium == /\ Holds(state, "wpcom", themeId)
                         /\ ItemOf(state, "wpcom", themeId).premium = B(TRUE)
              jetpack == /\ PropertyKey(siteId) \in DOMAIN state.sites
                         /\ state.sites[PropertyKey(siteId)].jetpack = B(TRUE)
          IN  /\ ~premium => ret = Null
              /\ (call.op = "getThemePurchaseUrl" /\ ret # Null) => ~jetpack
              /\ (call.op = "getJetpackUpgradeUrlIfPremiumTheme" /\ ret # Null) =>
                    jetpack /\ ~HasUnlimited(state, siteId)

\* A premium theme on a Jetpack site without the feature: the upgrade URL is
\* returned, and the purchase URL of the same theme and site is null.
C20_Witness ==
    /\ call.op = "getJetpackUpgradeUrlIfPremiumTheme"
    /\ ret # Null
    /\ getThemePurchaseUrl(state, call.args[1], call.args[2]) = Null


(***************************************************************************)
(* Specification of the suffixed theme ids: the active theme of a site of  *)
(* every kind, stored under an id built of the parts "a" and "-wpcom",     *)
(* with or without the suffix, and no theme installed on the site.         *)
(***************************************************************************)
InitSuffix ==
    /\ state \in {[InitialState EXCEPT !.sites = sites,
                                       !.themes.activeThemes = Compact(active)] :
                    sites \in AllSites,
                    active \in [SiteKeys -> {Undefined} \cup {S(id) : id \in StoredIds}]}
    /\ config = {}
    /\ cache = EmptyCache
    /\ call = NoCall
    /\ ret = Undefined

NextSuffix ==
    \/ Call_getSuffixedThemeId
    \/ Call_getActiveTheme
    \/ Return

SpecSuffix == InitSuffix /\ [][NextSuffix]_vars

\* C19: on a Jetpack site on which the theme is not installed, when the id
\* stored as active theme is the one getSuffixedThemeId produces for a theme
\* id, getActiveTheme returns that theme id; and a stored id that does not
\* end with "-wpcom" is returned unchanged.
C19_SuffixInverse ==
    (call.op = "getActiveTheme"
        /\ PropertyKey(call.args[1]) \in DOMAIN state.themes.activeThemes) =>
        LET siteId == call.args[1]
            stored == state.themes.activeThemes[PropertyKey(siteId)]
        IN  /\ \A id \in IdsUpTo(MaxIdParts) :
                  (/\ Truthy(isJetpackSite(state, siteId))
                   /\ ~Holds(state, PropertyKey(siteId), S(id))
                   /\ stored = getSuffixedThemeId(state, S(id), siteId))
                  => ret = S(id)
            /\ (Len(stored.v) < 6
                \/ SubSeq(stored.v, Len(stored.v) - 5, Len(stored.v)) # "-wpcom")
                  => ret = stored

====
